---- MODULE Spec2Model ----
(***************************************************************************)
(* Ingestion job controller of the RAG ingestion service                  *)
(* (backend/src/services/ingestion_services.py), with the file collector, *)
(* the per-file stages, the document store and the job-status endpoint,   *)
(* and the retrieval pipeline (backend/src/services/retrieval_service.py) *)
(* with its embedding cache and the POST /query endpoint.                 *)
(*                                                                         *)
(* A background task is an `async def` without any await, so one task     *)
(* runs on the event loop from start to end before another starts; the    *)
(* same holds for a query.  The status endpoint is a plain `def` served   *)
(* from the thread pool and can read the job store between any two steps  *)
(* of a running task.                                                      *)
(*                                                                         *)
(* Spec is ingestion alone, QuerySpec is handle_query alone over the      *)
(* shards a process starts with, RestartSpec is both together, JobsSpec   *)
(* is ingestion with every job id in use, ExtractorSpec adds direct calls *)
(* of extract_text, and FirstLoadSpec takes a query in two steps, before  *)
(* and after the scan of the shard files by load_embeddings.              *)
(***************************************************************************)
EXTENDS Integers, Sequences, FiniteSets, TLC

\* ------------------------------------------------------------------ bounds
MaxJobs == 2      \* invocations of documents_ingestion

JobIds == 1..MaxJobs
\* The jobs of the runs that leave the last job id unused; JobsSpec uses
\* them all.
EarlierJobs == 1..(MaxJobs - 1)

\* Python's None
None == "None"

\* ------------------------------------------------------------- file system
\* The files and directories the paths of the requests can name.  A path
\* outside the domain does not exist.  `files` and `dirs` list a directory's
\* entries in os.walk order (the files of a directory, then its
\* sub-directories); `name` is the basename, `ext` its extension as written.
File(n, e) == [kind |-> "file", name |-> n, ext |-> e, files |-> <<>>, dirs |-> <<>>]
Dir(fs, ds) == [kind |-> "dir", name |-> "", ext |-> "", files |-> fs, dirs |-> ds]

FS ==
    ("/a.txt"           :> File("a.txt", ".txt"))
 @@ ("/x.exe"           :> File("x.exe", ".exe"))
 @@ ("/empty"           :> Dir(<<"/empty/notes.md">>, <<>>))
 @@ ("/empty/notes.md"  :> File("notes.md", ".md"))
 @@ ("/docs"            :> Dir(<<"/docs/a.txt", "/docs/notes.md">>, <<"/docs/sub">>))
 @@ ("/docs/a.txt"      :> File("a.txt", ".txt"))
 @@ ("/docs/notes.md"   :> File("notes.md", ".md"))
 @@ ("/docs/sub"        :> Dir(<<"/docs/sub/B.PDF">>, <<>>))
 @@ ("/docs/sub/B.PDF"  :> File("B.PDF", ".PDF"))

\* The path strings a request can carry.
RequestPaths == {"/nope", "/a.txt", "/x.exe", "/empty", "/docs/"}

\* os.path.normpath on the request paths: a trailing separator is dropped.
normpath(p) == IF p = "/docs/" THEN "/docs" ELSE p

\* str.lower on the extensions that occur.
lower(e) == IF e = ".PDF" THEN ".pdf" ELSE e

SUPPORTED_EXTENSIONS == {".pdf", ".txt", ".docx"}

exists(p) == p \in DOMAIN FS
isfile(p) == exists(p) /\ FS[p].kind = "file"
isdir(p) == exists(p) /\ FS[p].kind = "dir"
endswith_supported(p) == lower(FS[p].ext) \in SUPPORTED_EXTENSIONS
basename(p) == FS[p].name

\* --------------------------------------------------------------- exceptions
\* An exception is its class, HTTP status and detail; str() of the API
\* exceptions is "<status_code>: <detail>".
APIException(t, code, d) == [type |-> t, status_code |-> code, detail |-> d]
PathNotFoundError(p) ==
    APIException("PathNotFoundError", 400,
                 IF p # "" THEN "Path does not exist: " \o p ELSE "Path does not exist")
ValidationError(m) == APIException("ValidationError", 400, m)
InvalidFileError(f, m) ==
    APIException("InvalidFileError", 400,
                 IF m # "" THEN m
                 ELSE IF f # "" THEN "Invalid file: " \o f ELSE "Invalid or unsupported file")
ProcessingError(m, d) ==
    APIException("ProcessingError", 500, IF d # "" THEN m \o ": " \o d ELSE m)
DatabaseError(m, d) ==
    APIException("DatabaseError", 500, IF d # "" THEN m \o ": " \o d ELSE m)
\* What the database driver raises when a query or a commit fails.
SQLAlchemyError == [type |-> "SQLAlchemyError", status_code |-> 0, detail |-> "database unavailable"]
NoException == [type |-> None, status_code |-> 0, detail |-> ""]

str(e) ==
    IF e.status_code = 0 THEN e.detail
    ELSE ToString(e.status_code) \o ": " \o e.detail

\* ------------------------------------------------------------ file collector
\* Variant that lists the directory itself and does not descend.
walk_TopLevelOnly(d) == SelectSeq(FS[d].files, endswith_supported)

\* os.walk(path): every file below path, a directory's files before the
\* files of its sub-directories, filtered by extension.
RECURSIVE walk(_)
walk(d) ==
    LET own == SelectSeq(FS[d].files, endswith_supported)
        RECURSIVE below(_)
        below(ds) == IF ds = <<>> THEN <<>> ELSE walk(Head(ds)) \o below(Tail(ds))
    IN  own \o below(FS[d].dirs)

\* validate_and_collect_files(path): [raised |-> exception] or
\* [raised |-> NoException, files |-> list].
Raise(e) == [raised |-> e, files |-> <<>>]
Return(fs) == [raised |-> NoException, files |-> fs]

\* Variant without the os.path.exists test: a missing path is neither a file
\* nor a directory.
validate_and_collect_files_NoExistsCheck(p) ==
    IF p = "" THEN Raise(ValidationError("Invalid or missing path"))
    ELSE IF isfile(p)
         THEN IF endswith_supported(p) THEN Return(<<p>>)
              ELSE Raise(ValidationError("Unsupported file type: " \o p))
    ELSE IF isdir(p) THEN Return(walk(p))
    ELSE Raise(ValidationError("Invalid path type"))

validate_and_collect_files(p) ==
    IF p = "" THEN Raise(ValidationError("Invalid or missing path"))
    ELSE IF ~exists(p) THEN Raise(PathNotFoundError(p))
    ELSE IF isfile(p)
         THEN IF endswith_supported(p) THEN Return(<<p>>)
              ELSE Raise(ValidationError("Unsupported file type: " \o p))
    ELSE IF isdir(p) THEN Return(walk(p))
    ELSE Raise(ValidationError("Invalid path type"))

\* ------------------------------------------------------------ per-file stages
\* A stage returns [raised |-> exception, value |-> result].  The second
\* argument is what the underlying library does on this input.
Raised(e) == [raised |-> e, value |-> <<>>]
Value(v) == [raised |-> NoException, value |-> v]

\* Texts a file can hold: nothing, white space only, or content.
Texts == {"", " ", "content"}
strip(t) == IF t = " " THEN "" ELSE t

\* extract_text(file_path); lib is the text read, or "raise" when open(),
\* PdfReader or Document raises.  The InvalidFileError of the else branch
\* is raised inside the inner try, whose `except Exception` re-raises it
\* as ProcessingError.
extract_text(file_path, lib) ==
    IF file_path = "" THEN Raised(InvalidFileError("", "Invalid file path"))
    ELSE IF lower(FS[file_path].ext) \in {".txt", ".pdf", ".docx"}
         THEN IF lib = "raise"
              THEN Raised(ProcessingError("Error extracting text", "unreadable"))
              ELSE Value(lib)
    ELSE Raised(ProcessingError("Error extracting text",
                    str(InvalidFileError(file_path, "Unsupported file type"))))

\* chunk_text(text); lib says whether the splitter raises and how many
\* chunks it yields.  Chunks are numbered in order.
SplitterOutcomes ==
    {[raise |-> TRUE, n |-> 0]} \cup {[raise |-> FALSE, n |-> n] : n \in {0, 1, 2}}

chunk_text(text, lib) ==
    IF text = "" THEN Raised(ProcessingError("Invalid or empty text for chunking", ""))
    ELSE IF lib.raise THEN Raised(ProcessingError("Error chunking text", "splitter"))
    ELSE Value([i \in 1..lib.n |-> i])

\* generate_embeddings(chunks); one vector per chunk, in order.
generate_embeddings(chunks, lib) ==
    IF chunks = <<>> THEN Raised(ProcessingError("Invalid chunks for embedding generation", ""))
    ELSE IF lib = "raise" THEN Raised(ProcessingError("Error generating embeddings", "model"))
    ELSE Value([i \in 1..Len(chunks) |-> "vector"])

\* The input validation at the head of store_document.
store_document_validate(file_path, chunks, embeddings) ==
    IF file_path = "" THEN Raised(ProcessingError("Invalid file path", ""))
    ELSE IF chunks = <<>> THEN Raised(ProcessingError("Invalid chunks", ""))
    ELSE IF embeddings = <<>> THEN Raised(ProcessingError("Invalid embeddings", ""))
    ELSE IF Len(chunks) # Len(embeddings)
         THEN Raised(ProcessingError("Chunks and embeddings count mismatch", ""))
    ELSE Value(<<>>)

\* ------------------------------------------------------------------ retrieval
\* (services/retrieval_service.py)  Scores are integers here: the cosine
\* similarity and the cross-encoder score of a row are what the models give,
\* and only their order and their side of the threshold matter.
MaxIndexRows == 21   \* rows of the shards a process starts with

CONFIDENCE_THRESHOLD == -5
MAX_RETRIEVAL_POOL == 20

\* EMBEDDING_CACHE = None.  The cached value is the data frame `df`, a
\* non-empty sequence of rows; `matrix` is its embedding column stacked.
NoCache == <<>>
\* document_id = None: no filter.
NoFilter == 0

\* What duckdb raises when the glob of read_parquet matches no file.
IOException ==
    [type |-> "IOException", status_code |-> 0,
     detail |-> "IO Error: No files found that match the pattern"]
\* What a library call raises otherwise (model, numpy, requests).
RuntimeError(what) == [type |-> "RuntimeError", status_code |-> 0, detail |-> what]

\* The rows of the shard files in glob order (ascending file name), with
\* the columns the query selects.
RECURSIVE read_parquet_from(_, _)
read_parquet_from(files, d) ==
    IF \A f \in files : f.document_id < d THEN <<>>
    ELSE LET here == {f \in files : f.document_id = d}
             rows == IF here = {} THEN <<>> ELSE (CHOOSE f \in here : TRUE).rows
         IN  [i \in 1..Len(rows) |->
                 [chunk_id |-> ToString(d) \o "-" \o ToString(rows[i].chunk_index),
                  document_id |-> d,
                  text |-> rows[i].text,
                  embedding |-> rows[i].embedding]]
             \o read_parquet_from(files, d + 1)

\* conn.execute("SELECT ... FROM read_parquet('data/parquet/*.parquet')")
\* .fetchdf(): raises when no file matches, or when lib says a file cannot
\* be read.
read_parquet(files, lib) ==
    IF files = {} THEN Raised(IOException)
    ELSE IF lib = "raise" THEN Raised(RuntimeError("Invalid Input Error: not a parquet file"))
    ELSE Value(read_parquet_from(files, 1))

\* Variant that does not look at the cache before reading the shards.
load_embeddings_NoCacheCheck(cache, files, lib) ==
    LET r == read_parquet(files, lib) IN
      IF r.raised # NoException
      THEN [raised |-> ProcessingError("Failed to load embeddings", str(r.raised)),
            value |-> NoCache, cache |-> cache, read |-> TRUE]
      ELSE IF r.value = <<>>
      THEN [raised |-> NoException, value |-> NoCache, cache |-> NoCache, read |-> TRUE]
      ELSE [raised |-> NoException, value |-> r.value, cache |-> r.value, read |-> TRUE]

\* load_embeddings(): `value` is what it returns, `cache` is EMBEDDING_CACHE
\* afterwards, `read` says whether the shard files were read.
load_embeddings(cache, files, lib) ==
    IF cache # NoCache
    THEN [raised |-> NoException, value |-> cache, cache |-> cache, read |-> FALSE]
    ELSE LET r == read_parquet(files, lib) IN
      IF r.raised # NoException
      THEN [raised |-> ProcessingError("Failed to load embeddings", str(r.raised)),
            value |-> NoCache, cache |-> cache, read |-> TRUE]
      ELSE IF r.value = <<>>
      THEN [raised |-> NoException, value |-> NoCache, cache |-> NoCache, read |-> TRUE]
      ELSE [raised |-> NoException, value |-> r.value, cache |-> r.value, read |-> TRUE]

\* A score as a model gives it to the row at position i: seeds are what the
\* embedding model and the cross-encoder do on the texts at hand.
Score(seed, i) == seed.base + ((seed.step * i) % seed.mod)

\* sorted(..., reverse=True) / sort_values(ascending=False): descending by
\* key, rows of equal key in their input order.  keys[i] is the key of s[i].
sort_descending(s, keys) ==
    LET n == Len(s)
        place == [i \in 1..n |->
                    Cardinality({j \in 1..n : keys[j] > keys[i]})
                    + Cardinality({j \in 1..(i - 1) : keys[j] = keys[i]}) + 1]
    IN  [p \in 1..n |-> s[CHOOSE i \in 1..n : place[i] = p]]

\* s[:k] / head(k), for k >= 0.
head(s, k) == SubSeq(s, 1, IF k < Len(s) THEN k ELSE Len(s))

Min(a, b) == IF a < b THEN a ELSE b
Max(a, b) == IF a > b THEN a ELSE b

\* Line 165: retrieval_k.
retrieval_pool_size(top_k) == Min(Max(top_k * 5, 10), MAX_RETRIEVAL_POOL)

\* Lines 159-162: compute_similarity and the similarity_score column.
with_similarity(df, seed) ==
    [i \in 1..Len(df) |->
        [chunk_id |-> df[i].chunk_id, document_id |-> df[i].document_id,
         text |-> df[i].text, similarity_score |-> Score(seed, i)]]

\* Variant that takes the head of the frame without sorting it.
top_candidates_Unsorted(df, retrieval_k) == head(df, retrieval_k)

\* Lines 167-172: sort_values(by="similarity_score", ascending=False)
\* .head(retrieval_k).to_dict(orient="records").
top_candidates(df, retrieval_k) ==
    head(sort_descending(df, [i \in 1..Len(df) |-> df[i].similarity_score]), retrieval_k)

\* reranker.predict(pairs) and lines 101-102: every chunk gets its score.
with_rerank_score(chunks_in, seed) ==
    [i \in 1..Len(chunks_in) |->
        [chunk_id |-> chunks_in[i].chunk_id, document_id |-> chunks_in[i].document_id,
         text |-> chunks_in[i].text, similarity_score |-> chunks_in[i].similarity_score,
         rerank_score |-> Score(seed, i)]]

\* Variant that sorts without reverse=True.
rerank_Ascending(chunks_in, seed) ==
    LET scored == with_rerank_score(chunks_in, seed)
    IN  sort_descending(scored, [i \in 1..Len(scored) |-> 0 - scored[i].rerank_score])

\* rerank(query, chunks): lines 98-111.
rerank(chunks_in, seed) ==
    LET scored == with_rerank_score(chunks_in, seed)
    IN  sort_descending(scored, [i \in 1..Len(scored) |-> scored[i].rerank_score])

\* Variant without the fallback of lines 183-185.
threshold_with_fallback_NoFallback(reranked) ==
    SelectSeq(reranked, LAMBDA c : c.rerank_score > CONFIDENCE_THRESHOLD)

\* Variant whose comparison keeps a score equal to the threshold.
threshold_with_fallback_KeepsEqual(reranked) ==
    LET filtered == SelectSeq(reranked, LAMBDA c : c.rerank_score >= CONFIDENCE_THRESHOLD)
    IN  IF filtered = <<>> THEN reranked ELSE filtered

\* Lines 178-185: filtered_chunks, or the whole reranked list when nothing
\* passes the threshold.
threshold_with_fallback(reranked) ==
    LET filtered == SelectSeq(reranked, LAMBDA c : c.rerank_score > CONFIDENCE_THRESHOLD)
    IN  IF filtered = <<>> THEN reranked ELSE filtered

\* Lines 237-244: the sources of the response.
sources_of(final) ==
    [i \in 1..Len(final) |->
        [document_id |-> final[i].document_id, chunk_id |-> final[i].chunk_id,
         score |-> final[i].rerank_score]]

\* ------------------------------------------------------------------- answers
\* A text is the sequence of its words and of the blanks between them.
NO_DOCUMENTS == <<"No", " ", "documents", " ", "available.">>
NO_DOCUMENTS_FOR_ID ==
    <<"No", " ", "documents", " ", "found", " ", "for", " ", "the", " ", "provided", " ",
      "document_id.">>
COULD_NOT_FIND ==
    <<"I", " ", "could", " ", "not", " ", "find", " ", "the", " ", "information", " ",
      "in", " ", "the", " ", "provided", " ", "documents.">>

\* Answers the generative model can give.
LLMAnswers ==
    { <<"Paris">>,
      <<" ", "Paris", " ">>,
      <<"Sure!", " ", "Paris">>,
      <<"Sure!", " ", "Paris", " ", "Sure!">>,
      <<"Here", " ", "is", " ", "Paris">> }

RECURSIVE lstrip(_)
lstrip(t) == IF t # <<>> /\ Head(t) = " " THEN lstrip(Tail(t)) ELSE t
RECURSIVE rstrip(_)
rstrip(t) == IF t # <<>> /\ t[Len(t)] = " " THEN rstrip(SubSeq(t, 1, Len(t) - 1)) ELSE t
\* str.strip()
strip_text(t) == rstrip(lstrip(t))

\* str.startswith(prefix)
startswith(t, prefix) ==
    Len(prefix) <= Len(t) /\ SubSeq(t, 1, Len(prefix)) = prefix

\* str.replace(old, ""): every occurrence of old, left to right.
RECURSIVE replace_with_nothing(_, _)
replace_with_nothing(t, old) ==
    IF t = <<>> THEN <<>>
    ELSE IF startswith(t, old) THEN replace_with_nothing(SubSeq(t, Len(old) + 1, Len(t)), old)
    ELSE <<Head(t)>> \o replace_with_nothing(Tail(t), old)

\* Lines 220-226; the third prefix is written with a typographic apostrophe,
\* shown here as a back quote.
unwanted_prefixes ==
    << <<"Sure!">>, <<"Here", " ", "is">>, <<"Here`s">>, <<"Source", " ", "1:">>,
       <<"Sure!", " ", "Here's">> >>

\* Lines 228-230: the loop over the prefixes, from prefix number i on.
RECURSIVE clean_answer(_, _)
clean_answer(answer, i) ==
    IF i > Len(unwanted_prefixes) THEN answer
    ELSE clean_answer(IF startswith(answer, unwanted_prefixes[i])
                      THEN strip_text(replace_with_nothing(answer, unwanted_prefixes[i]))
                      ELSE answer,
                      i + 1)

\* generate_answer(prompt) (service_support/ollama.py): requests.post raises,
\* or the status is not 200 and the error text is returned, or the model's
\* answer is returned stripped.
generate_answer(lib) ==
    IF lib.fail = "llm_raise" THEN Raised(RuntimeError("ConnectionError"))
    ELSE IF lib.fail = "llm_status" THEN Value(<<"LLM", " ", "Error:", " ", "unavailable">>)
    ELSE Value(strip_text(lib.answer))

InternalServerError(m, d) ==
    APIException("InternalServerError", 500, IF d # "" THEN m \o ": " \o d ELSE m)

\* Variant that ignores the filter.
filter_by_document_Ignored(df, doc) == df

\* Lines 146-156: the rows of one document when a filter is given.
filter_by_document(df, doc) ==
    IF doc # NoFilter THEN SelectSeq(df, LAMBDA r : r.document_id = doc) ELSE df

\* The locals of a handle_query call when it ends: how it ended, what it
\* returned or raised, and what each step produced (`generated` is `answer`
\* as line 217 sets it, before the clean-up).
NoQuery ==
    [outcome |-> "none", raised |-> NoException, answer |-> <<>>, generated |-> <<>>,
     sources |-> <<>>,
     top_k |-> 0, document_id |-> NoFilter, stage |-> "", cached |-> FALSE, read |-> FALSE,
     scored |-> <<>>, retrieval_k |-> 0, top_candidates |-> <<>>, reranked_results |-> <<>>,
     filtered_chunks |-> <<>>, final_chunks |-> <<>>]

\* handle_query raises ProcessingError (lines 252-254).
query_failed(q, e) ==
    [q EXCEPT !.outcome = "raised",
              !.raised = ProcessingError("Query processing failed", str(e))]
\* handle_query returns a response.
query_returned(q, answer, final) ==
    [q EXCEPT !.outcome = "returned", !.answer = answer, !.sources = sources_of(final),
              !.final_chunks = final]

\* What the libraries do during one query: the step that fails, if any, the
\* scores of the two models and the generated answer.
Failures == {"embed", "load", "similarity", "rerank", "llm_raise", "llm_status"}

\* handle_query(query, top_k, document_id): `locals` as above, `cache` is
\* EMBEDDING_CACHE afterwards.
handle_query(top_k, doc, cache, parquet_files, lib) ==
    LET q0 == [NoQuery EXCEPT !.top_k = top_k, !.document_id = doc, !.stage = "embed",
                              !.cached = (cache # NoCache)]
        v  == generate_embeddings(<<"query">>, IF lib.fail = "embed" THEN "raise" ELSE "vectors")
        l  == load_embeddings(cache, parquet_files, IF lib.fail = "load" THEN "raise" ELSE "rows")
        q1 == [q0 EXCEPT !.stage = "load", !.read = l.read]
        df == filter_by_document(l.value, doc)
        q2 == [q1 EXCEPT !.stage = "filter"]
        scored == with_similarity(df, lib.sim)
        retrieval_k == retrieval_pool_size(top_k)
        candidates == top_candidates(scored, retrieval_k)
        q3 == [q2 EXCEPT !.stage = "rerank", !.scored = scored, !.retrieval_k = retrieval_k,
                         !.top_candidates = candidates]
        reranked == rerank(candidates, lib.rr)
        filtered == threshold_with_fallback(reranked)
        final == head(filtered, top_k)
        q4 == [q3 EXCEPT !.stage = "generate", !.reranked_results = reranked,
                         !.filtered_chunks = filtered]
        a  == generate_answer(lib)
    IN  IF v.raised # NoException
        THEN [locals |-> query_failed(q0, v.raised), cache |-> cache]
        ELSE IF l.raised # NoException
        THEN [locals |-> query_failed(q1, l.raised), cache |-> l.cache]
        ELSE IF l.value = NoCache
        THEN [locals |-> query_returned(q1, NO_DOCUMENTS, <<>>), cache |-> l.cache]
        ELSE IF df = <<>>
        THEN [locals |-> query_returned(q2, NO_DOCUMENTS_FOR_ID, <<>>), cache |-> l.cache]
        ELSE IF lib.fail = "similarity"
        THEN [locals |-> query_failed([q2 EXCEPT !.stage = "similarity"],
                                      RuntimeError("shapes not aligned")),
              cache |-> l.cache]
        ELSE IF lib.fail = "rerank"
        THEN [locals |-> query_failed(q3, RuntimeError("predict")), cache |-> l.cache]
        ELSE IF final = <<>>
        THEN [locals |-> query_returned(q4, COULD_NOT_FIND, <<>>), cache |-> l.cache]
        ELSE IF a.raised # NoException
        THEN [locals |-> query_failed(q4, a.raised), cache |-> l.cache]
        ELSE [locals |-> query_returned([q4 EXCEPT !.generated = strip_text(a.value)],
                                        clean_answer(strip_text(a.value), 1), final),
              cache |-> l.cache]

\* POST /query (endpoints/ingestion.py): the request is validated,
\* handle_query is called without a document filter, and what it raises is
\* raised again as InternalServerError.
query_documents(request, cache, parquet_files, lib) ==
    IF request.query = ""
    THEN [locals |-> [NoQuery EXCEPT !.outcome = "raised", !.stage = "validate",
                                     !.raised = ValidationError("Query cannot be empty")],
          cache |-> cache]
    ELSE IF request.top_k < 1
    THEN [locals |-> [NoQuery EXCEPT !.outcome = "raised", !.stage = "validate",
                                     !.raised = ValidationError("top_k must be greater than 0")],
          cache |-> cache]
    ELSE LET r == handle_query(request.top_k, NoFilter, cache, parquet_files, lib) IN
           IF r.locals.outcome = "raised"
           THEN [locals |-> [r.locals EXCEPT !.raised =
                                InternalServerError("Error processing query", str(@))],
                 cache |-> r.cache]
           ELSE r

\* -------------------------------------------------------------------- state
VARIABLES
    engine,        \* connect_db.engine is not None
    jobs,          \* table ingestion_jobs: job id -> row, or NoRow
    documents,     \* table documents (committed rows)
    chunk_rows,    \* table chunks (committed rows)
    shards,        \* data/parquet/<document_id>.parquet: document id -> rows
    next_uuid,     \* uuid.uuid4(): the next fresh document id
    pc,            \* where the task of each job stands
    path,          \* documents_ingestion's argument `path`
    job,           \* the session's IngestionJob object (in memory)
    files,         \* local `files`
    idx,           \* position of the for loop in `files`
    chunks,        \* local `chunks`
    embeddings,    \* local `embeddings`
    document_id,   \* store_document's local `document_id`
    results,       \* local `results`
    failed_files,  \* local `failed_files`
    exc,           \* the exception `e` the job-level handler caught
    session,       \* the task's database session: times opened and closed
    raised,        \* the exception documents_ingestion ended with, if any
    log,           \* history of the task: stage calls, writes, faults
    EMBEDDING_CACHE, \* retrieval_service.EMBEDDING_CACHE
    query,         \* the query call that has ended and is not yet answered
    first_load     \* whether load_embeddings was called, and the documents
                   \* that had a shard at its first call

locals == <<path, job, files, idx, chunks, embeddings, document_id, results,
            failed_files, exc>>
store == <<documents, chunk_rows, shards, next_uuid>>
vars == <<engine, jobs, documents, chunk_rows, shards, next_uuid, pc, path, job,
          files, idx, chunks, embeddings, document_id, results, failed_files,
          exc, session, raised, log, EMBEDDING_CACHE, query, first_load>>
retrieval == <<EMBEDDING_CACHE, query, first_load>>

Running(j) == pc[j] \notin {"none", "queued", "done"}

Row(status, result) == [status |-> status, result |-> result]
\* No row: what .first() returns for an id the table does not hold.
NoRow == Row(None, None)

\* "Processed: {len(results)}, Failed: {len(failed_files)}, Time: ...s";
\* the elapsed time is left out.
Summary(n_ok, n_failed) ==
    "Processed: " \o ToString(n_ok) \o ", Failed: " \o ToString(n_failed)

Init ==
    /\ engine = FALSE
    /\ jobs = [j \in JobIds |-> NoRow]
    /\ documents = {}
    /\ chunk_rows = {}
    /\ shards = {}
    /\ next_uuid = 1
    /\ pc = [j \in JobIds |-> "none"]
    /\ path = [j \in JobIds |-> ""]
    /\ job = [j \in JobIds |-> NoRow]
    /\ files = [j \in JobIds |-> <<>>]
    /\ idx = [j \in JobIds |-> 0]
    /\ chunks = [j \in JobIds |-> <<>>]
    /\ embeddings = [j \in JobIds |-> <<>>]
    /\ document_id = [j \in JobIds |-> 0]
    /\ results = [j \in JobIds |-> <<>>]
    /\ failed_files = [j \in JobIds |-> <<>>]
    /\ exc = [j \in JobIds |-> NoException]
    /\ session = [j \in JobIds |-> [opened |-> 0, closed |-> 0]]
    /\ raised = [j \in JobIds |-> NoException]
    /\ log = [j \in JobIds |-> <<>>]
    /\ EMBEDDING_CACHE = NoCache
    /\ query = NoQuery
    /\ first_load = [called |-> FALSE, docs |-> {}]

Goto(j, label) == pc' = [pc EXCEPT ![j] = label]
Log(j, kind, what, how) == log' = [log EXCEPT ![j] = Append(@, <<kind, what, how>>)]
Log2(j, e1, e2) == log' = [log EXCEPT ![j] = Append(Append(@, e1), e2)]

\* Ids are handed out in order: the first id not yet used.
Fresh(j) == pc[j] = "none" /\ \A k \in JobIds : k < j => pc[k] # "none"

\* ---------------------------------------------------------------- endpoints
\* POST /ingest: the job row is committed as PENDING, then the background
\* task is added.
ingest_documents(j, p) ==
    /\ query = NoQuery
    /\ Fresh(j)
    /\ p # ""
    /\ engine' = TRUE
    /\ jobs' = [jobs EXCEPT ![j] = Row("PENDING", None)]
    /\ path' = [path EXCEPT ![j] = p]
    /\ Goto(j, "queued")
    /\ UNCHANGED <<retrieval, store, job, files, idx, chunks, embeddings, document_id, results,
                   failed_files, exc, session, raised, log>>

\* documents_ingestion called with a job id that names no row.
ingestion_of_unknown_job(j, p) ==
    /\ query = NoQuery
    /\ Fresh(j)
    /\ path' = [path EXCEPT ![j] = p]
    /\ Goto(j, "queued")
    /\ UNCHANGED <<retrieval, engine, jobs, store, job, files, idx, chunks, embeddings, document_id,
                   results, failed_files, exc, session, raised, log>>

\* GET /task-status/{job_id}: the committed row, or JobNotFoundError (404).
task_status(j) ==
    IF jobs[j] = NoRow THEN [job_id |-> j, status |-> "JOB_NOT_FOUND", result |-> None]
    ELSE [job_id |-> j, status |-> jobs[j].status, result |-> jobs[j].result]

\* The endpoint answers task_status(j) and writes nothing; it can run
\* between any two steps of a task.
get_task_status(j) ==
    /\ task_status(j).job_id = j
    /\ UNCHANGED vars

\* ------------------------------------------------------- documents_ingestion
\* The steps of the task of job j.  A database call (query, commit) returns
\* or raises SQLAlchemyError; a commit that raises has rolled the session
\* back, so the session's job object is read again from the committed row.

\* Lines 257-261: the engine exists after the first initialize_database();
\* the session is opened.  No other task is on the event loop.
start_task(j) ==
    /\ pc[j] = "queued"
    /\ query = NoQuery
    /\ \A k \in JobIds : ~Running(k)
    /\ engine' = TRUE
    /\ session' = [session EXCEPT ![j] = [opened |-> @.opened + 1, closed |-> @.closed]]
    /\ Goto(j, "query")
    /\ UNCHANGED <<retrieval, jobs, store, locals, raised, log>>

\* `except Exception as e:` of the controller (line 347) is entered with e.
EnterHandler(j, e) ==
    /\ exc' = [exc EXCEPT ![j] = e]
    /\ Goto(j, "except_query")

\* Variant in which the collector is called before PROCESSING is committed.
query_job_SkipsProcessing(j) ==
    /\ pc[j] = "query"
    /\ \E ok \in BOOLEAN :
         IF ~ok
         THEN /\ EnterHandler(j, SQLAlchemyError)
              /\ Log(j, "fault", "query", "")
              /\ UNCHANGED job
         ELSE /\ job' = [job EXCEPT ![j] = jobs[j]]
              /\ Goto(j, IF jobs[j] = NoRow THEN "finally" ELSE "collect")
              /\ UNCHANGED <<exc, log>>
    /\ UNCHANGED <<retrieval, engine, jobs, store, path, files, idx, chunks, embeddings, document_id,
                   results, failed_files, session, raised>>

\* Lines 265-267: the job row is queried; a missing row ends the task.
query_job(j) ==
    /\ pc[j] = "query"
    /\ \E ok \in BOOLEAN :
         IF ~ok
         THEN /\ EnterHandler(j, SQLAlchemyError)
              /\ Log(j, "fault", "query", "")
              /\ UNCHANGED job
         ELSE /\ job' = [job EXCEPT ![j] = jobs[j]]
              /\ Goto(j, IF jobs[j] = NoRow THEN "finally" ELSE "set_processing")
              /\ UNCHANGED <<exc, log>>
    /\ UNCHANGED <<retrieval, engine, jobs, store, path, files, idx, chunks, embeddings, document_id,
                   results, failed_files, session, raised>>

\* Variant in which the update of the job row is not limited to the job's id.
CommitJob_EveryRow(j, row, ok, next) ==
    IF ok
    THEN /\ jobs' = [k \in JobIds |-> IF jobs[k] # NoRow THEN row ELSE jobs[k]]
         /\ job' = [job EXCEPT ![j] = row]
         /\ Log(j, "write", "job", row.status)
         /\ Goto(j, next)
         /\ UNCHANGED exc
    ELSE /\ job' = [job EXCEPT ![j] = jobs[j]]
         /\ Log(j, "fault", "commit", row.status)
         /\ EnterHandler(j, SQLAlchemyError)
         /\ UNCHANGED jobs

\* Variant in which a commit that raises has nevertheless written the row.
CommitJob_DurableOnError(j, row, ok, next) ==
    /\ jobs' = [jobs EXCEPT ![j] = row]
    /\ IF ok
       THEN /\ job' = [job EXCEPT ![j] = row]
            /\ Log(j, "write", "job", row.status)
            /\ Goto(j, next)
            /\ UNCHANGED exc
       ELSE /\ job' = [job EXCEPT ![j] = row]
            /\ Log(j, "fault", "commit", row.status)
            /\ EnterHandler(j, SQLAlchemyError)

\* db.commit() of the session's job object as it stands in `row`.
CommitJob(j, row, ok, next) ==
    IF ok
    THEN /\ jobs' = [jobs EXCEPT ![j] = row]
         /\ job' = [job EXCEPT ![j] = row]
         /\ Log(j, "write", "job", row.status)
         /\ Goto(j, next)
         /\ UNCHANGED exc
    ELSE /\ job' = [job EXCEPT ![j] = jobs[j]]
         /\ Log(j, "fault", "commit", row.status)
         /\ EnterHandler(j, SQLAlchemyError)
         /\ UNCHANGED jobs

\* Lines 269-270: job.status = "PROCESSING"; db.commit().
set_processing(j) ==
    /\ pc[j] = "set_processing"
    /\ \E ok \in BOOLEAN :
         CommitJob(j, [job[j] EXCEPT !.status = "PROCESSING"], ok, "collect")
    /\ UNCHANGED <<retrieval, engine, store, path, files, idx, chunks, embeddings, document_id,
                   results, failed_files, session, raised>>

\* Lines 275-287: the path is normalised and handed to the collector; no
\* file marks the job FAILED (committed by the next step).
collect_files(j) ==
    /\ pc[j] = "collect"
    /\ path' = [path EXCEPT ![j] = normpath(path[j])]
    /\ Log(j, "call", "collect", normpath(path[j]))
    /\ LET r == validate_and_collect_files(normpath(path[j])) IN
         IF r.raised # NoException
         THEN /\ EnterHandler(j, r.raised)
              /\ UNCHANGED <<job, files, idx>>
         ELSE IF r.files = <<>>
         THEN /\ job' = [job EXCEPT ![j] = Row("FAILED", "No supported files found")]
              /\ Goto(j, "commit_no_files")
              /\ UNCHANGED <<exc, files, idx>>
         ELSE /\ files' = [files EXCEPT ![j] = r.files]
              /\ idx' = [idx EXCEPT ![j] = 1]
              /\ Goto(j, "extract")
              /\ UNCHANGED <<exc, job>>
    /\ UNCHANGED <<retrieval, engine, jobs, store, chunks, embeddings, document_id, results,
                   failed_files, session, raised>>

\* Variant without the `return` of line 284: the (empty) loop and the final
\* update follow.
commit_no_files_FallsThrough(j) ==
    /\ pc[j] = "commit_no_files"
    /\ \E ok \in BOOLEAN : CommitJob(j, job[j], ok, "set_completed")
    /\ UNCHANGED <<retrieval, engine, store, path, files, idx, chunks, embeddings, document_id,
                   results, failed_files, session, raised>>

\* Lines 283-284: db.commit() of FAILED / "No supported files found"; return.
commit_no_files(j) ==
    /\ pc[j] = "commit_no_files"
    /\ \E ok \in BOOLEAN : CommitJob(j, job[j], ok, "finally")
    /\ UNCHANGED <<retrieval, engine, store, path, files, idx, chunks, embeddings, document_id,
                   results, failed_files, session, raised>>

\* ------------------------------------------------------------ the file loop
file_path(j) == files[j][idx[j]]

\* The for loop moves to the next file, or ends (line 289).
NextFile(j) ==
    IF idx[j] < Len(files[j])
    THEN /\ idx' = [idx EXCEPT ![j] = @ + 1]
         /\ Goto(j, "extract")
    ELSE /\ Goto(j, "set_completed")
         /\ UNCHANGED idx

\* Variant in which a file's failure leaves the loop for the job-level
\* handler.
FileFailed_Escapes(j, reason) ==
    /\ Goto(j, "except_query")
    /\ UNCHANGED <<idx, results, failed_files>>

\* Variant in which the empty-text branch continues without recording the
\* file.
FileFailed_EmptyNotRecorded(j, reason) ==
    /\ failed_files' = [failed_files EXCEPT ![j] =
            IF reason = "Empty file" THEN @ ELSE Append(@, file_path(j) \o " - " \o reason)]
    /\ NextFile(j)
    /\ UNCHANGED results

\* Lines 299-300, 306-307, 326-332: the file is recorded as failed and the
\* loop continues.
FileFailed(j, reason) ==
    /\ failed_files' = [failed_files EXCEPT ![j] = Append(@, file_path(j) \o " - " \o reason)]
    /\ NextFile(j)
    /\ UNCHANGED results

\* Line 320: results.append(file_path).
FileStored(j) ==
    /\ results' = [results EXCEPT ![j] = Append(@, file_path(j))]
    /\ NextFile(j)
    /\ UNCHANGED failed_files

\* The current file goes on to its next stage.
NextStage(j, label) ==
    /\ Goto(j, label)
    /\ UNCHANGED <<idx, results, failed_files>>

\* Lines 296-300: extract_text, then the empty-text test.
extract(j) ==
    /\ pc[j] = "extract"
    /\ \E lib \in Texts \cup {"raise"} :
         LET r == extract_text(file_path(j), lib) IN
           IF r.raised # NoException
           THEN /\ Log(j, "extract", file_path(j), "raised")
                /\ FileFailed(j, str(r.raised))
           ELSE IF strip(r.value) = ""
           THEN /\ Log(j, "extract", file_path(j), "empty")
                /\ FileFailed(j, "Empty file")
           ELSE /\ Log(j, "extract", file_path(j), "returned")
                /\ NextStage(j, "chunk")
    /\ UNCHANGED <<retrieval, engine, jobs, store, path, job, files, chunks, embeddings, document_id,
                   exc, session, raised>>

\* Lines 303-307: chunk_text of the (non-blank) text, then the no-chunk test.
chunk(j) ==
    /\ pc[j] = "chunk"
    /\ \E lib \in SplitterOutcomes :
         LET r == chunk_text("content", lib) IN
           IF r.raised # NoException
           THEN /\ Log(j, "chunk", file_path(j), "raised")
                /\ FileFailed(j, str(r.raised))
                /\ UNCHANGED chunks
           ELSE IF r.value = <<>>
           THEN /\ Log(j, "chunk", file_path(j), "nochunks")
                /\ FileFailed(j, "Chunking failed")
                /\ UNCHANGED chunks
           ELSE /\ Log(j, "chunk", file_path(j), "returned")
                /\ chunks' = [chunks EXCEPT ![j] = r.value]
                /\ NextStage(j, "embed")
    /\ UNCHANGED <<retrieval, engine, jobs, store, path, job, files, embeddings, document_id,
                   exc, session, raised>>

\* Variant in which the Document row is written before the embeddings are
\* generated.
embed_DocumentFirst(j) ==
    /\ pc[j] = "embed"
    /\ documents' = documents \cup
          {[document_id |-> next_uuid, file_name |-> basename(file_path(j)),
            status |-> "processing"]}
    /\ \E lib \in {"vectors", "raise"} :
         LET r == generate_embeddings(chunks[j], lib) IN
           IF r.raised # NoException
           THEN /\ Log(j, "embed", file_path(j), "raised")
                /\ FileFailed(j, str(r.raised))
                /\ UNCHANGED embeddings
           ELSE /\ Log(j, "embed", file_path(j), "returned")
                /\ embeddings' = [embeddings EXCEPT ![j] = r.value]
                /\ NextStage(j, "store_document")
    /\ UNCHANGED <<retrieval, engine, jobs, chunk_rows, shards, next_uuid, path, job, files,
                   chunks, document_id, exc, session, raised>>

\* Line 310: generate_embeddings(chunks).
embed(j) ==
    /\ pc[j] = "embed"
    /\ \E lib \in {"vectors", "raise"} :
         LET r == generate_embeddings(chunks[j], lib) IN
           IF r.raised # NoException
           THEN /\ Log(j, "embed", file_path(j), "raised")
                /\ FileFailed(j, str(r.raised))
                /\ UNCHANGED embeddings
           ELSE /\ Log(j, "embed", file_path(j), "returned")
                /\ embeddings' = [embeddings EXCEPT ![j] = r.value]
                /\ NextStage(j, "store_document")
    /\ UNCHANGED <<retrieval, engine, jobs, store, path, job, files, chunks, document_id,
                   exc, session, raised>>

\* ------------------------------------------------------------ store_document
\* (service_support/storage_service.py) called at line 313 with the task's
\* session.  Its three writes are three steps: the Document row, the shard
\* file, the Chunk rows.

\* Lines 38-65: validation, a fresh document id, the Document row committed.
\* A failing commit is rolled back and raised as DatabaseError (112-115).
store_document_row(j) ==
    /\ pc[j] = "store_document"
    /\ LET v == store_document_validate(file_path(j), chunks[j], embeddings[j]) IN
         IF v.raised # NoException
         THEN /\ Log(j, "store", file_path(j), "raised")
              /\ FileFailed(j, str(v.raised))
              /\ UNCHANGED <<store, document_id>>
         ELSE \E ok \in BOOLEAN :
                IF ok
                THEN /\ document_id' = [document_id EXCEPT ![j] = next_uuid]
                     /\ next_uuid' = next_uuid + 1
                     /\ documents' = documents \cup
                           {[document_id |-> next_uuid, file_name |-> basename(file_path(j)),
                             status |-> "completed"]}
                     /\ Log(j, "write", "document", ToString(next_uuid))
                     /\ NextStage(j, "store_shard")
                     /\ UNCHANGED <<chunk_rows, shards>>
                ELSE /\ Log2(j, <<"fault", "commit", "document">>,
                                <<"store", file_path(j), "raised">>)
                     /\ FileFailed(j, str(DatabaseError("Error storing document in database",
                                                        str(SQLAlchemyError))))
                     /\ UNCHANGED <<store, document_id>>
    /\ UNCHANGED <<retrieval, engine, jobs, path, job, files, chunks, embeddings,
                   exc, session, raised>>

\* The rows of the data frame: zip(chunks, embeddings), numbered from 0.
ShardRows(doc, cs, es) ==
    [i \in 1..(IF Len(cs) < Len(es) THEN Len(cs) ELSE Len(es)) |->
        [document_id |-> doc, chunk_index |-> i - 1, text |-> cs[i], embedding |-> es[i]]]

\* Variant in which the rollback of a failed shard write takes the Document
\* row back.
store_document_shard_UndoesDocument(j) ==
    /\ pc[j] = "store_shard"
    /\ \E ok \in BOOLEAN :
         IF ok
         THEN /\ shards' = shards \cup
                    {[document_id |-> document_id[j],
                      rows |-> ShardRows(document_id[j], chunks[j], embeddings[j])]}
              /\ Log(j, "write", "shard", ToString(document_id[j]))
              /\ NextStage(j, "store_chunks")
              /\ UNCHANGED documents
         ELSE /\ Log(j, "store", file_path(j), "raised")
              /\ FileFailed(j, str(ProcessingError("Error storing document", "parquet write")))
              /\ documents' = {d \in documents : d.document_id # document_id[j]}
              /\ UNCHANGED shards
    /\ UNCHANGED <<retrieval, engine, jobs, chunk_rows, next_uuid, path, job, files, chunks,
                   embeddings, document_id, exc, session, raised>>

\* Lines 67-96: the shard <document_id>.parquet is written.  A failure is
\* rolled back (nothing is pending) and raised as ProcessingError (117-120).
store_document_shard(j) ==
    /\ pc[j] = "store_shard"
    /\ \E ok \in BOOLEAN :
         IF ok
         THEN /\ shards' = shards \cup
                    {[document_id |-> document_id[j],
                      rows |-> ShardRows(document_id[j], chunks[j], embeddings[j])]}
              /\ Log(j, "write", "shard", ToString(document_id[j]))
              /\ NextStage(j, "store_chunks")
         ELSE /\ Log(j, "store", file_path(j), "raised")
              /\ FileFailed(j, str(ProcessingError("Error storing document", "parquet write")))
              /\ UNCHANGED shards
    /\ UNCHANGED <<retrieval, engine, jobs, documents, chunk_rows, next_uuid, path, job, files, chunks,
                   embeddings, document_id, exc, session, raised>>

\* Variant in which storing a document drops the embedding cache.
store_document_chunks_InvalidatesCache(j) ==
    /\ pc[j] = "store_chunks"
    /\ \E ok \in BOOLEAN :
         IF ok
         THEN /\ chunk_rows' = chunk_rows \cup
                    {[document_id |-> document_id[j], chunk_index |-> i - 1] :
                        i \in 1..Len(chunks[j])}
              /\ Log2(j, <<"write", "chunks", ToString(document_id[j])>>,
                         <<"store", file_path(j), "returned">>)
              /\ FileStored(j)
              /\ EMBEDDING_CACHE' = NoCache
         ELSE /\ Log2(j, <<"fault", "commit", "chunks">>,
                         <<"store", file_path(j), "raised">>)
              /\ FileFailed(j, str(DatabaseError("Error storing document in database",
                                                 str(SQLAlchemyError))))
              /\ UNCHANGED <<chunk_rows, EMBEDDING_CACHE>>
    /\ UNCHANGED <<query, first_load, engine, jobs, documents, shards, next_uuid, path, job,
                   files, chunks, embeddings, document_id, exc, session, raised>>

\* Variant in which the failing commit of the Chunk rows is not caught for
\* the file and reaches the job-level handler.
store_document_chunks_Fatal(j) ==
    /\ pc[j] = "store_chunks"
    /\ \E ok \in BOOLEAN :
         IF ok
         THEN /\ chunk_rows' = chunk_rows \cup
                    {[document_id |-> document_id[j], chunk_index |-> i - 1] :
                        i \in 1..Len(chunks[j])}
              /\ Log2(j, <<"write", "chunks", ToString(document_id[j])>>,
                         <<"store", file_path(j), "returned">>)
              /\ FileStored(j)
              /\ UNCHANGED exc
         ELSE /\ Log2(j, <<"fault", "commit", "chunks">>,
                         <<"store", file_path(j), "raised">>)
              /\ EnterHandler(j, SQLAlchemyError)
              /\ UNCHANGED <<chunk_rows, idx, results, failed_files>>
    /\ UNCHANGED <<retrieval, engine, jobs, documents, shards, next_uuid, path, job, files,
                   chunks, embeddings, document_id, session, raised>>

\* Lines 99-110: the Chunk rows are added and committed, store_document
\* returns and the controller appends the file to results (line 320).  A
\* failing commit is rolled back and raised as DatabaseError.
store_document_chunks(j) ==
    /\ pc[j] = "store_chunks"
    /\ \E ok \in BOOLEAN :
         IF ok
         THEN /\ chunk_rows' = chunk_rows \cup
                    {[document_id |-> document_id[j], chunk_index |-> i - 1] :
                        i \in 1..Len(chunks[j])}
              /\ Log2(j, <<"write", "chunks", ToString(document_id[j])>>,
                         <<"store", file_path(j), "returned">>)
              /\ FileStored(j)
         ELSE /\ Log2(j, <<"fault", "commit", "chunks">>,
                         <<"store", file_path(j), "raised">>)
              /\ FileFailed(j, str(DatabaseError("Error storing document in database",
                                                 str(SQLAlchemyError))))
              /\ UNCHANGED chunk_rows
    /\ UNCHANGED <<retrieval, engine, jobs, documents, shards, next_uuid, path, job, files, chunks,
                   embeddings, document_id, exc, session, raised>>

\* ------------------------------------------------------- end of the controller
\* Lines 335-340: job.status = "COMPLETED" and the summary.
set_completed(j) ==
    /\ pc[j] = "set_completed"
    /\ job' = [job EXCEPT ![j] = Row("COMPLETED",
                                     Summary(Len(results[j]), Len(failed_files[j])))]
    /\ Goto(j, "commit_completed")
    /\ UNCHANGED <<retrieval, engine, jobs, store, path, files, idx, chunks, embeddings, document_id,
                   results, failed_files, exc, session, raised, log>>

\* Line 341: db.commit().
commit_completed(j) ==
    /\ pc[j] = "commit_completed"
    /\ \E ok \in BOOLEAN : CommitJob(j, job[j], ok, "finally")
    /\ UNCHANGED <<retrieval, engine, store, path, files, idx, chunks, embeddings, document_id,
                   results, failed_files, session, raised>>

\* Variant in which db.close() is not in a finally block: an exception
\* leaving the handler ends the task at once.
Propagate_SkipsFinally(j, e) ==
    /\ raised' = [raised EXCEPT ![j] = e]
    /\ Goto(j, "done")

\* An exception leaves the except block: documents_ingestion ends with it
\* once the finally block has run.
Propagate(j, e) ==
    /\ raised' = [raised EXCEPT ![j] = e]
    /\ Goto(j, "finally")

\* Line 349: the handler queries the job row again.
except_query(j) ==
    /\ pc[j] = "except_query"
    /\ \E ok \in BOOLEAN :
         IF ok
         THEN /\ job' = [job EXCEPT ![j] = jobs[j]]
              /\ Goto(j, IF jobs[j] = NoRow THEN "finally" ELSE "except_commit")
              /\ UNCHANGED <<raised, log>>
         ELSE /\ Log(j, "fault", "query", "handler")
              /\ Propagate(j, SQLAlchemyError)
              /\ UNCHANGED job
    /\ UNCHANGED <<retrieval, engine, jobs, store, path, files, idx, chunks, embeddings, document_id,
                   results, failed_files, exc, session>>

\* Variant in which the handler sets the status and not the result.
except_commit_StatusOnly(j) ==
    /\ pc[j] = "except_commit"
    /\ \E ok \in BOOLEAN :
         IF ok
         THEN /\ jobs' = [jobs EXCEPT ![j] = Row("FAILED", job[j].result)]
              /\ job' = [job EXCEPT ![j] = Row("FAILED", job[j].result)]
              /\ Log(j, "write", "job", "FAILED")
              /\ Goto(j, "finally")
              /\ UNCHANGED raised
         ELSE /\ job' = [job EXCEPT ![j] = jobs[j]]
              /\ Log(j, "fault", "commit", "handler")
              /\ raised' = [raised EXCEPT ![j] = SQLAlchemyError]
              /\ Goto(j, "finally")
              /\ UNCHANGED jobs
    /\ UNCHANGED <<retrieval, engine, store, path, files, idx, chunks, embeddings, document_id,
                   results, failed_files, exc, session>>

\* Lines 350-353: job.status = "FAILED"; job.result = str(e); db.commit().
except_commit(j) ==
    /\ pc[j] = "except_commit"
    /\ \E ok \in BOOLEAN :
         IF ok
         THEN /\ jobs' = [jobs EXCEPT ![j] = Row("FAILED", str(exc[j]))]
              /\ job' = [job EXCEPT ![j] = Row("FAILED", str(exc[j]))]
              /\ Log(j, "write", "job", "FAILED")
              /\ Goto(j, "finally")
              /\ UNCHANGED raised
         ELSE /\ job' = [job EXCEPT ![j] = jobs[j]]
              /\ Log(j, "fault", "commit", "handler")
              /\ Propagate(j, SQLAlchemyError)
              /\ UNCHANGED jobs
    /\ UNCHANGED <<retrieval, engine, store, path, files, idx, chunks, embeddings, document_id,
                   results, failed_files, exc, session>>

\* Line 358: finally: db.close(); the task ends and its locals are gone.
finally_close(j) ==
    /\ pc[j] = "finally"
    /\ session' = [session EXCEPT ![j] = [opened |-> @.opened, closed |-> @.closed + 1]]
    /\ Goto(j, "done")
    /\ job' = [job EXCEPT ![j] = NoRow]
    /\ files' = [files EXCEPT ![j] = <<>>]
    /\ idx' = [idx EXCEPT ![j] = 0]
    /\ chunks' = [chunks EXCEPT ![j] = <<>>]
    /\ embeddings' = [embeddings EXCEPT ![j] = <<>>]
    /\ document_id' = [document_id EXCEPT ![j] = 0]
    /\ results' = [results EXCEPT ![j] = <<>>]
    /\ failed_files' = [failed_files EXCEPT ![j] = <<>>]
    /\ exc' = [exc EXCEPT ![j] = NoException]
    /\ path' = [path EXCEPT ![j] = ""]
    /\ log' = [log EXCEPT ![j] = <<>>]
    /\ UNCHANGED <<retrieval, engine, jobs, store, raised>>

documents_ingestion(j) ==
    \/ start_task(j)
    \/ query_job(j)
    \/ set_processing(j)
    \/ collect_files(j)
    \/ commit_no_files(j)
    \/ extract(j)
    \/ chunk(j)
    \/ embed(j)
    \/ store_document_row(j)
    \/ store_document_shard(j)
    \/ store_document_chunks(j)
    \/ set_completed(j)
    \/ commit_completed(j)
    \/ except_query(j)
    \/ except_commit(j)
    \/ finally_close(j)

\* ---------------------------------------------------------- retrieval steps
\* handle_query and the endpoint around it are `async def` without an await
\* that suspends: a query runs from start to end on the event loop, between
\* two tasks, and its response is sent before anything else runs.
ingestion == <<engine, jobs, store, pc, locals, session, raised, log>>

\* Variant in which the query endpoint is served from the thread pool, as a
\* plain `def` endpoint is: a query starts whatever else is under way.
EventLoopFree_ThreadPool == TRUE

EventLoopFree == query = NoQuery /\ \A k \in JobIds : ~Running(k)

Seed(b, st, m) == [base |-> b, step |-> st, mod |-> m]
\* Similarity scores: all equal, rising with the position, or scattered.
SimSeeds == {Seed(0, 0, 1), Seed(0, 1, 23), Seed(0, 3, 5)}
\* Rerank scores: a window of three values starting at base, which lies
\* below, across or above the threshold.
RerankSeeds ==
    {Seed(b, st, 3) : b \in {-8, -7, -6, -4}, st \in {1, 2}} \cup {Seed(-5, 0, 1)}
Lib(f, sim, rr, a) == [fail |-> f, sim |-> sim, rr |-> rr, answer |-> a]

\* What the requests of POST /query carry, and what the libraries do then.
Requests == [query : {"", "q"}, top_k : {0, 1}]
EndpointLibs ==
    {Lib("none", Seed(0, 1, 23), rr, <<"Sure!", " ", "Paris">>) :
        rr \in {Seed(-8, 1, 3), Seed(-6, 1, 3)}}
    \cup {Lib(f, Seed(0, 1, 23), Seed(-6, 1, 3), <<"Paris">>) : f \in Failures}

\* Direct calls of handle_query.
TopKs == {1, 3, 10}
Filters == {NoFilter, 1, 3}
QueryLibs ==
    {Lib("none", sim, rr, <<"Paris">>) : sim \in SimSeeds, rr \in RerankSeeds}
    \cup {Lib("none", Seed(0, 1, 23), Seed(-6, 1, 3), a) : a \in LLMAnswers}
    \cup {Lib(f, Seed(0, 1, 23), Seed(-6, 1, 3), <<"Paris">>) : f \in Failures}

\* load_embeddings was called during the query q.
Loaded(q) == q.stage \notin {"validate", "embed"}

EndQuery(r) ==
    /\ query' = r.locals
    /\ EMBEDDING_CACHE' = r.cache
    /\ first_load' = IF ~first_load.called /\ Loaded(r.locals)
                     THEN [called |-> TRUE, docs |-> {f.document_id : f \in shards}]
                     ELSE first_load
    /\ UNCHANGED <<jobs, store, pc, locals, session, raised, log>>

\* POST /query.  Its get_db dependency calls initialize_database().
post_query(request, lib) ==
    /\ EventLoopFree
    /\ engine' = TRUE
    /\ LET r == query_documents(request, EMBEDDING_CACHE, shards, lib) IN EndQuery(r)

\* handle_query called with a document filter.
call_handle_query(top_k, doc, lib) ==
    /\ EventLoopFree
    /\ UNCHANGED engine
    /\ LET r == handle_query(top_k, doc, EMBEDDING_CACHE, shards, lib) IN EndQuery(r)

\* The response (or the error) leaves the process.
send_response ==
    /\ query.outcome \in {"returned", "raised"}
    /\ query' = NoQuery
    /\ UNCHANGED <<ingestion, EMBEDDING_CACHE, first_load>>

Next ==
    \/ \E j \in EarlierJobs, p \in RequestPaths : ingest_documents(j, p)
    \/ \E j \in EarlierJobs, p \in RequestPaths : ingestion_of_unknown_job(j, p)
    \/ \E j \in EarlierJobs : documents_ingestion(j)
    \/ \E j \in EarlierJobs : get_task_status(j)

\* Ingestion alone: jobs, their tasks and the status endpoint.
Spec == Init /\ [][Next]_vars

\* Ingestion with every job id in use: a job is accepted while the task of
\* another is queued, running or done.
JobsNext ==
    \/ \E j \in JobIds, p \in RequestPaths : ingest_documents(j, p)
    \/ \E j \in JobIds, p \in RequestPaths : ingestion_of_unknown_job(j, p)
    \/ \E j \in JobIds : documents_ingestion(j)
    \/ \E j \in JobIds : get_task_status(j)

JobsSpec == Init /\ [][JobsNext]_vars

\* ------------------------------------------------------------ queries alone
\* A process that starts with shards on disk (n rows, split over documents
\* 1 and 2) and serves calls of handle_query.
SeedRows(doc, n) ==
    ShardRows(doc, [i \in 1..n |-> i], [i \in 1..n |-> "vector"])
SeedShards(n) ==
    {[document_id |-> 1, rows |-> SeedRows(1, (n + 1) \div 2)] : x \in 1..Min(n, 1)}
    \cup {[document_id |-> 2, rows |-> SeedRows(2, n \div 2)] : x \in 1..Min(n \div 2, 1)}

SeededInit(n) ==
    /\ shards = SeedShards(n)
    /\ documents = {[document_id |-> f.document_id, file_name |-> "a.txt",
                     status |-> "completed"] : f \in SeedShards(n)}
    /\ chunk_rows = UNION {{[document_id |-> f.document_id, chunk_index |-> i - 1] :
                               i \in 1..Len(f.rows)} : f \in SeedShards(n)}
    /\ next_uuid = Cardinality(SeedShards(n)) + 1
    /\ engine = FALSE
    /\ jobs = [j \in JobIds |-> NoRow]
    /\ pc = [j \in JobIds |-> "none"]
    /\ path = [j \in JobIds |-> ""]
    /\ job = [j \in JobIds |-> NoRow]
    /\ files = [j \in JobIds |-> <<>>]
    /\ idx = [j \in JobIds |-> 0]
    /\ chunks = [j \in JobIds |-> <<>>]
    /\ embeddings = [j \in JobIds |-> <<>>]
    /\ document_id = [j \in JobIds |-> 0]
    /\ results = [j \in JobIds |-> <<>>]
    /\ failed_files = [j \in JobIds |-> <<>>]
    /\ exc = [j \in JobIds |-> NoException]
    /\ session = [j \in JobIds |-> [opened |-> 0, closed |-> 0]]
    /\ raised = [j \in JobIds |-> NoException]
    /\ log = [j \in JobIds |-> <<>>]
    /\ EMBEDDING_CACHE = NoCache
    /\ query = NoQuery
    /\ first_load = [called |-> FALSE, docs |-> {}]

QueryInit == \E n \in 0..MaxIndexRows : SeededInit(n)

QueryNext ==
    \/ \E top_k \in TopKs, doc \in Filters, lib \in QueryLibs :
          call_handle_query(top_k, doc, lib)
    \/ send_response

QuerySpec == QueryInit /\ [][QueryNext]_vars

\* --------------------------------------------------------- after a restart
\* Ingestion and POST /query together, in a process that starts with no
\* shard, or with a shard an earlier process left on disk.
RestartInit == \E n \in {0, 1} : SeededInit(n)

ServiceNext ==
    \/ Next
    \/ \E request \in Requests, lib \in EndpointLibs : post_query(request, lib)
    \/ send_response

RestartSpec == RestartInit /\ [][ServiceNext]_vars

\* ------------------------------------------------ the first load, in steps
\* POST /query in two steps when it finds the cache cold: up to the test of
\* line 42 (`if EMBEDDING_CACHE is not None`), and from the scan of the shard
\* files to the end of the call.  Between the two the query is inside
\* load_embeddings.  A query that ends before the test, or finds the cache
\* built, is one step as before.
InLoad(top_k) == [NoQuery EXCEPT !.outcome = "loading", !.stage = "load", !.top_k = top_k]

begin_query(request, lib) ==
    /\ EventLoopFree
    /\ engine' = TRUE
    /\ LET r == query_documents(request, EMBEDDING_CACHE, shards, lib) IN
         IF Loaded(r.locals) /\ EMBEDDING_CACHE = NoCache
         THEN /\ query' = InLoad(request.top_k)
              /\ UNCHANGED <<EMBEDDING_CACHE, first_load, jobs, store, pc, locals, session,
                             raised, log>>
         ELSE EndQuery(r)

finish_query(lib) ==
    /\ query.outcome = "loading"
    /\ lib.fail # "embed"
    /\ UNCHANGED engine
    /\ LET r == query_documents([query |-> "q", top_k |-> query.top_k], EMBEDDING_CACHE,
                                shards, lib)
       IN  EndQuery(r)

FirstLoadNext ==
    \/ Next
    \/ \E request \in Requests, lib \in EndpointLibs : begin_query(request, lib)
    \/ \E lib \in EndpointLibs : finish_query(lib)
    \/ send_response

FirstLoadSpec == RestartInit /\ [][FirstLoadNext]_vars

\* ------------------------------------------------------ the extractor alone
\* extract_text called on its own with any file of the file system, outside
\* a task: no session is opened, and what the call raised is kept with the
\* path it was given.
FilePaths == {p \in DOMAIN FS : isfile(p)}

call_extract_text(j, p, lib) ==
    /\ query = NoQuery
    /\ Fresh(j)
    /\ path' = [path EXCEPT ![j] = p]
    /\ raised' = [raised EXCEPT ![j] = extract_text(p, lib).raised]
    /\ Goto(j, "done")
    /\ UNCHANGED <<retrieval, engine, jobs, store, job, files, idx, chunks, embeddings,
                   document_id, results, failed_files, exc, session, log>>

ExtractorNext ==
    \/ Next
    \/ \E j \in EarlierJobs, p \in FilePaths, lib \in Texts \cup {"raise"} :
          call_extract_text(j, p, lib)

ExtractorSpec == Init /\ [][ExtractorNext]_vars

\* ---------------------------------------------------------------- properties
\* Readings of the task history.
Events(j) == {log[j][i] : i \in 1..Len(log[j])}
StageKinds == {"extract", "chunk", "embed", "store"}
LoopPcs == {"extract", "chunk", "embed", "store_document", "store_shard", "store_chunks"}
Stages(j) == SelectSeq(log[j], LAMBDA e : e[1] \in StageKinds)
Writes(j) == SelectSeq(log[j], LAMBDA e : e[1] = "write")
Faults(j) == SelectSeq(log[j], LAMBDA e : e[1] = "fault")
\* The files handed to extract_text, in call order.
Extracted(j) ==
    LET s == SelectSeq(log[j], LAMBDA e : e[1] = "extract")
    IN  [i \in 1..Len(s) |-> s[i][2]]
\* Files whose store_document call returned.
Returned(j) == Len(SelectSeq(log[j], LAMBDA e : e[1] = "store" /\ e[3] = "returned"))
\* Files for which a stage raised, or that gave empty text or no chunks.
NotStored(j) ==
    Len(SelectSeq(log[j], LAMBDA e : e[1] \in StageKinds
                                      /\ e[3] \in {"raised", "empty", "nochunks"}))
IndexOf(fs, f) == CHOOSE i \in 1..Len(fs) : fs[i] = f
CollectorCalled(j) == \E e \in Events(j) : e[1] = "call" /\ e[2] = "collect"
Rank(status) ==
    IF status = "PENDING" THEN 0
    ELSE IF status = "PROCESSING" THEN 1
    ELSE IF status \in {"COMPLETED", "FAILED"} THEN 2
    ELSE -1

\* C1: the committed status of a job only moves forward along
\* PENDING -> PROCESSING -> {COMPLETED, FAILED}: every change of a job's
\* committed status goes to a status of higher rank, so PROCESSING is
\* entered at most once and COMPLETED / FAILED are never left.
C1_StatusOnlyMovesForward ==
    [][\A j \in JobIds :
         jobs'[j].status # jobs[j].status => Rank(jobs[j].status) < Rank(jobs'[j].status)]_vars

\* C1 witness: the commit of COMPLETED raised and the handler has committed
\* FAILED after PROCESSING.
C1_Witness ==
    \E j \in JobIds :
        /\ pc[j] = "finally"
        /\ jobs[j].status = "FAILED"
        /\ <<"fault", "commit", "COMPLETED">> \in Events(j)
        /\ <<"write", "job", "PROCESSING">> \in Events(j)

\* C2: in a job whose collector returned files, the stage calls are ordered
\* by the file's position in the list (all stages of one file come before any
\* stage of the next), the files handed to extract_text are a prefix of the
\* list following the loop index, each once, and once the loop is left every
\* file of the list has been attempted, whatever the stages raised.
C2_EveryFileAttemptedOnceInOrder ==
    \A j \in JobIds :
        files[j] # <<>> =>
            LET st == Stages(j)
                ex == Extracted(j)
            IN  /\ \A a, b \in 1..Len(st) :
                       a < b => IndexOf(files[j], st[a][2]) <= IndexOf(files[j], st[b][2])
                /\ Len(ex) <= Len(files[j])
                /\ ex = SubSeq(files[j], 1, Len(ex))
                /\ pc[j] = "extract" => Len(ex) = idx[j] - 1
                /\ pc[j] \in LoopPcs \ {"extract"} => Len(ex) = idx[j]
                /\ pc[j] \notin LoopPcs => ex = files[j]

\* C2 witness: the loop over two files has ended; the first file raised in
\* extract_text and the second was stored.
C2_Witness ==
    \E j \in JobIds :
        /\ pc[j] = "set_completed"
        /\ Len(files[j]) = 2
        /\ <<"extract", files[j][1], "raised">> \in Events(j)
        /\ <<"store", files[j][2], "returned">> \in Events(j)

\* C3: when the loop over n >= 1 files has ended, the job object is
\* COMPLETED with Processed = the number of files whose store_document call
\* returned and Failed = the number of files that raised or gave empty text
\* or no chunks, the two adding up to n; that row is what is committed when
\* the commit returns.
C3_CompletedWithCounts ==
    \A j \in JobIds :
        /\ pc[j] = "commit_completed" =>
              /\ Len(files[j]) >= 1
              /\ job[j] = Row("COMPLETED", Summary(Returned(j), NotStored(j)))
              /\ Returned(j) + NotStored(j) = Len(files[j])
        /\ (pc[j] = "finally" /\ files[j] # <<>> /\ exc[j] = NoException) =>
              /\ jobs[j] = Row("COMPLETED", Summary(Returned(j), NotStored(j)))
              /\ Returned(j) + NotStored(j) = Len(files[j])
        /\ (pc[j] = "finally" /\ jobs[j].status = "COMPLETED") =>
              jobs[j].result = Summary(Returned(j), NotStored(j))

\* C3 witness: a directory with one good .txt and one unreadable .pdf ends
\* COMPLETED with "Processed: 1, Failed: 1".
C3_Witness ==
    \E j \in JobIds :
        /\ pc[j] = "finally"
        /\ jobs[j] = Row("COMPLETED", "Processed: 1, Failed: 1")
        /\ <<"store", "/docs/a.txt", "returned">> \in Events(j)
        /\ <<"extract", "/docs/sub/B.PDF", "raised">> \in Events(j)

\* C4: whenever the job-level handler was entered with an exception, the
\* committed row of the job is FAILED with the text of that exception when
\* the controller reaches its end.
C4_HandlerPersistsFailed ==
    \A j \in JobIds :
        (pc[j] = "finally" /\ exc[j] # NoException /\ jobs[j] # NoRow) =>
            jobs[j] = Row("FAILED", str(exc[j]))

\* C5: documents_ingestion never ends with an exception.
C5_NothingPropagates ==
    \A j \in JobIds : raised[j] = NoException

\* The collector returned the empty list for the job's path.
NoFilesFound(j) ==
    /\ CollectorCalled(j)
    /\ validate_and_collect_files(path[j]) = Return(<<>>)

\* C6: when the collector returns no file, no stage is called and the task
\* writes no Document, Chunk or shard; the job object is FAILED with
\* "No supported files found" at the commit, and that row is the committed
\* one when the task returns from line 284.
C6_NoFilesFailsTheJob ==
    \A j \in JobIds :
        NoFilesFound(j) =>
            /\ Stages(j) = <<>>
            /\ \A i \in 1..Len(Writes(j)) : Writes(j)[i][2] = "job"
            /\ pc[j] = "commit_no_files" => job[j] = Row("FAILED", "No supported files found")
            /\ (pc[j] = "finally" /\ exc[j] = NoException) =>
                  jobs[j] = Row("FAILED", "No supported files found")

\* C6 witness: a directory without supported files has left the job FAILED.
C6_Witness ==
    \E j \in JobIds :
        /\ pc[j] = "finally"
        /\ path[j] = "/empty"
        /\ CollectorCalled(j)
        /\ jobs[j] = Row("FAILED", "No supported files found")

\* The collector was called with a path that does not exist.
PathMissing(j) == CollectorCalled(j) /\ ~exists(path[j])

\* C7: a job whose path does not exist is never COMPLETED, and when the
\* controller reaches its end without a database call having raised, its
\* committed row is FAILED with the path-not-found message.
C7_MissingPathFailsTheJob ==
    \A j \in JobIds :
        PathMissing(j) =>
            /\ jobs[j].status # "COMPLETED"
            /\ (pc[j] = "finally" /\ Faults(j) = <<>>) =>
                  jobs[j] = Row("FAILED", "400: Path does not exist: " \o path[j])

\* C7 witness: the task of a job with the missing path /nope has reached its
\* end with the row FAILED.
C7_Witness ==
    \E j \in JobIds :
        /\ pc[j] = "finally"
        /\ path[j] = "/nope"
        /\ CollectorCalled(j)
        /\ jobs[j].status = "FAILED"

\* C8: by the time the collector is called the task has written, and its
\* first write is the commit of PROCESSING; a task whose job id names no row
\* writes nothing and, unless a database call raised, ends by the return of
\* line 267 without an exception.
C8_ProcessingFirstAndMissingRowNoOp ==
    \A j \in JobIds :
        /\ CollectorCalled(j) =>
              /\ Writes(j) # <<>>
              /\ Writes(j)[1] = <<"write", "job", "PROCESSING">>
              /\ \E a, b \in 1..Len(log[j]) :
                     /\ a < b
                     /\ log[j][a] = <<"write", "job", "PROCESSING">>
                     /\ log[j][b][1] = "call"
        /\ (jobs[j] = NoRow /\ (Running(j) \/ pc[j] = "done")) =>
              /\ Writes(j) = <<>>
              /\ ~CollectorCalled(j)
              /\ (Faults(j) = <<>> /\ pc[j] # "done") =>
                    (pc[j] \in {"query", "finally"} /\ raised[j] = NoException)

\* C8 witness: a task whose job id names no row has reached its end after
\* the query returned nothing.
C8_Witness ==
    \E j \in JobIds :
        /\ pc[j] = "finally"
        /\ jobs[j] = NoRow
        /\ Faults(j) = <<>>

\* C9: the session of a task is opened once, is open while the task runs
\* and has been closed exactly once when the task has ended.
C9_SessionClosedOnce ==
    \A j \in JobIds :
        /\ pc[j] \in {"none", "queued"} => session[j] = [opened |-> 0, closed |-> 0]
        /\ Running(j) => session[j] = [opened |-> 1, closed |-> 0]
        /\ pc[j] = "done" => session[j] = [opened |-> 1, closed |-> 1]

\* C9 witness: a task that ended with an exception raised inside the
\* job-level handler has closed its session.
C9_Witness ==
    \E j \in JobIds :
        /\ pc[j] = "done"
        /\ raised[j] # NoException
        /\ session[j].closed = 1

\* A (status, result) pair as the status endpoint may show it.
WellPaired(status, result) ==
    /\ status \in {"PENDING", "PROCESSING", "COMPLETED", "FAILED"}
    /\ status \in {"PENDING", "PROCESSING"} <=> result = None

\* C10: every committed job row has result None exactly when its status is
\* PENDING or PROCESSING and a string exactly when it is COMPLETED or
\* FAILED, and so has every answer of the status endpoint for a known job.
C10_ResultNoneUntilTerminal ==
    \A j \in JobIds :
        /\ jobs[j] # NoRow => WellPaired(jobs[j].status, jobs[j].result)
        /\ task_status(j).status # "JOB_NOT_FOUND" =>
              WellPaired(task_status(j).status, task_status(j).result)

\* C10 witness: the status endpoint answers PROCESSING with no result while
\* store_document is between its Document commit and its shard write.
C10_Witness ==
    \E j \in JobIds :
        /\ pc[j] = "store_shard"
        /\ task_status(j) = [job_id |-> j, status |-> "PROCESSING", result |-> None]

\* Readings of a query.
SourceDocs(q) == {q.sources[i].document_id : i \in 1..Len(q.sources)}
CacheDocs(c) == {c[i].document_id : i \in 1..Len(c)}
ShardDocs == {f.document_id : f \in shards}

\* C11 (as stated): once load_embeddings has been called, no later call
\* reads the shard files, and the sources of a later query name only
\* documents that had a shard at that first call.
C11_NoReadAfterFirstCall ==
    [][(first_load.called /\ query' # NoQuery /\ query = NoQuery /\ Loaded(query')) =>
          /\ ~query'.read
          /\ SourceDocs(query') \subseteq first_load.docs]_vars

\* C11 (amended): once a call of load_embeddings has built the cache, the
\* cache never changes, no later call reads the shard files, and the sources
\* of a later query name only documents of the cache, so that a document whose
\* shard is written afterwards is in no later query's sources.
C11_NoReadOnceCached ==
    [][EMBEDDING_CACHE # NoCache =>
          /\ EMBEDDING_CACHE' = EMBEDDING_CACHE
          /\ (query' # NoQuery /\ query = NoQuery /\ Loaded(query')) =>
                /\ ~query'.read
                /\ SourceDocs(query') \subseteq CacheDocs(EMBEDDING_CACHE)]_vars

\* C11 witness: a query answered from the cache returns sources while a
\* shard written after the cache was built is on disk.
C11_Witness ==
    /\ query.outcome = "returned"
    /\ query.cached
    /\ ~query.read
    /\ query.sources # <<>>
    /\ ShardDocs \ CacheDocs(EMBEDDING_CACHE) # {}

\* C12: a query that reaches load_embeddings while no shard file exists ends
\* with the normal response "No documents available." and no sources, and
\* nothing is raised.
C12_NoShardIsNoError ==
    (query # NoQuery /\ Loaded(query) /\ shards = {}) =>
        /\ query.outcome = "returned"
        /\ query.raised = NoException
        /\ query.answer = NO_DOCUMENTS
        /\ query.sources = <<>>

\* C13: a handle_query call with a document filter that got an index from
\* load_embeddings either finds no row of that document in the index, and
\* then returns "No documents found for the provided document_id." with no
\* sources before anything is scored, reranked or generated; or scores
\* exactly the index rows of that document, and only they can be sources.
C13_DocumentFilter ==
    (query # NoQuery /\ query.document_id # NoFilter /\ Loaded(query)
       /\ EMBEDDING_CACHE # NoCache) =>
        LET rows == SelectSeq(EMBEDDING_CACHE, LAMBDA r : r.document_id = query.document_id)
        IN  /\ rows = <<>> =>
                 /\ query.outcome = "returned"
                 /\ query.answer = NO_DOCUMENTS_FOR_ID
                 /\ query.sources = <<>>
                 /\ query.stage = "filter"
                 /\ query.scored = <<>>
                 /\ query.top_candidates = <<>>
                 /\ query.reranked_results = <<>>
            /\ rows # <<>> =>
                 /\ query.answer # NO_DOCUMENTS_FOR_ID
                 /\ SourceDocs(query) \subseteq {query.document_id}
                 /\ query.stage \notin {"filter", "similarity"} =>
                       [i \in 1..Len(query.scored) |-> query.scored[i].chunk_id]
                         = [i \in 1..Len(rows) |-> rows[i].chunk_id]

\* C13 witness: an index holds documents 1 and 2 and a query filtered on
\* document 3 has returned the empty answer.
C13_Witness ==
    /\ query.outcome = "returned"
    /\ query.document_id = 3
    /\ query.answer = NO_DOCUMENTS_FOR_ID
    /\ CacheDocs(EMBEDDING_CACHE) = {1, 2}

\* The answer is the error text generate_answer returns for a status other
\* than 200.
LLMErrorAnswer(q) == startswith(q.answer, <<"LLM", " ", "Error:">>)

\* C14: a handle_query call ends either raising ProcessingError, or with one
\* of the two empty responses (no sources and the explanatory answer), or
\* with sources and a generated answer; a non-success status of the
\* generative model is never returned as an answer.
C14_FailuresReachTheCaller ==
    query # NoQuery =>
        /\ query.outcome = "raised" => query.raised.type = "ProcessingError"
        /\ query.outcome = "returned" =>
              /\ ~LLMErrorAnswer(query)
              /\ query.sources = <<>> => query.answer \in {NO_DOCUMENTS, NO_DOCUMENTS_FOR_ID}
              /\ query.sources # <<>> =>
                    query.answer \notin {NO_DOCUMENTS, NO_DOCUMENTS_FOR_ID, COULD_NOT_FIND}

\* The query got as far as handing candidates to the reranker.
Reranking(q) == q.stage \in {"rerank", "generate"}
ChunkIds(s) == {s[i].chunk_id : i \in 1..Len(s)}

\* C15: the retrieval pool size is min(max(5 * top_k, 10), 20), which lies
\* in 10..20 (10 for top_k = 1, 15 for 3, 20 for 10), and the candidates
\* handed to the reranker are min(pool size, number of rows) distinct rows of
\* the index, none of which has a lower similarity score than a row left out.
C15_RetrievalPool ==
    (query # NoQuery /\ Reranking(query)) =>
        LET k == query.retrieval_k
            c == query.top_candidates
            all == query.scored
        IN  /\ k = (IF 5 * query.top_k < 10 THEN 10
                    ELSE IF 5 * query.top_k > 20 THEN 20 ELSE 5 * query.top_k)
            /\ k \in 10..20
            /\ query.top_k = 1 => k = 10
            /\ query.top_k = 3 => k = 15
            /\ query.top_k = 10 => k = 20
            /\ Len(c) = (IF k < Len(all) THEN k ELSE Len(all))
            /\ Cardinality(ChunkIds(c)) = Len(c)
            /\ \A i \in 1..Len(c) : \E j \in 1..Len(all) : all[j] = c[i]
            /\ \A j \in 1..Len(all) :
                   all[j].chunk_id \notin ChunkIds(c) =>
                       \A i \in 1..Len(c) : all[j].similarity_score <= c[i].similarity_score

\* C15 witness: top_k = 1 over more than ten rows of unequal similarity,
\* the first of which is left out of the ten candidates.
C15_Witness ==
    /\ Reranking(query)
    /\ query.top_k = 1
    /\ Len(query.scored) > 10
    /\ Len(query.top_candidates) = 10
    /\ query.scored[1].chunk_id \notin ChunkIds(query.top_candidates)

\* C16: the list rerank returns has the candidates it was given, each once
\* and none other, and its rerank scores never rise along the list.
C16_RerankIsSortedPermutation ==
    (query # NoQuery /\ query.stage = "generate") =>
        LET inp == query.top_candidates
            out == query.reranked_results
        IN  /\ Len(out) = Len(inp)
            /\ Cardinality(ChunkIds(out)) = Len(out)
            /\ ChunkIds(out) = ChunkIds(inp)
            /\ \A i \in 1..Len(out) : \E j \in 1..Len(inp) :
                   /\ out[i].chunk_id = inp[j].chunk_id
                   /\ out[i].document_id = inp[j].document_id
                   /\ out[i].text = inp[j].text
                   /\ out[i].similarity_score = inp[j].similarity_score
            /\ \A i \in 1..(Len(out) - 1) : out[i].rerank_score >= out[i + 1].rerank_score

\* C16 witness: rerank has moved another candidate to the head of a list of
\* at least three candidates with unequal rerank scores.
C16_Witness ==
    /\ query.stage = "generate"
    /\ Len(query.reranked_results) >= 3
    /\ query.reranked_results[1].chunk_id # query.top_candidates[1].chunk_id
    /\ query.reranked_results[1].rerank_score
         > query.reranked_results[Len(query.reranked_results)].rerank_score

\* C17: when no reranked candidate scores above the threshold, the list
\* kept is the whole reranked list; and a query that reranked its (non-empty)
\* pool and returned has at least one source, whatever the scores.
C17_ThresholdFallback ==
    (query # NoQuery /\ query.stage = "generate") =>
        /\ query.reranked_results # <<>>
        /\ (\A i \in 1..Len(query.reranked_results) :
                query.reranked_results[i].rerank_score <= CONFIDENCE_THRESHOLD) =>
              query.filtered_chunks = query.reranked_results
        /\ query.outcome = "returned" =>
              /\ query.sources # <<>>
              /\ query.final_chunks = head(query.filtered_chunks, query.top_k)
              /\ Len(query.sources) = Len(query.final_chunks)

\* C17 witness: every candidate of a pool of at least two scores at or below
\* the threshold, one of them exactly the threshold, and the query returned
\* sources.
C17_Witness ==
    /\ query.outcome = "returned"
    /\ Len(query.reranked_results) >= 2
    /\ \A i \in 1..Len(query.reranked_results) :
           query.reranked_results[i].rerank_score <= CONFIDENCE_THRESHOLD
    /\ \E i \in 1..Len(query.reranked_results) :
           query.reranked_results[i].rerank_score = CONFIDENCE_THRESHOLD
    /\ query.sources # <<>>

\* The reranked candidates that score above the threshold, in reranked order.
AboveThreshold(q) ==
    SelectSeq(q.reranked_results, LAMBDA c : c.rerank_score > CONFIDENCE_THRESHOLD)

\* C18: when some reranked candidate scores above the threshold, the sources
\* returned are the first min(top_k, number of such candidates) of them in
\* reranked order: every source scores above the threshold (a score equal to
\* it is dropped) and no candidate left out scores higher than a source.
C18_SourcesAreTopKAboveThreshold ==
    (query # NoQuery /\ query.stage = "generate" /\ query.outcome = "returned"
       /\ AboveThreshold(query) # <<>>) =>
        LET pass == AboveThreshold(query)
            src  == query.sources
        IN  /\ Len(src) = (IF query.top_k < Len(pass) THEN query.top_k ELSE Len(pass))
            /\ \A i \in 1..Len(src) :
                   /\ src[i].chunk_id = pass[i].chunk_id
                   /\ src[i].document_id = pass[i].document_id
                   /\ src[i].score = pass[i].rerank_score
                   /\ src[i].score > CONFIDENCE_THRESHOLD
                   /\ src[i].score # CONFIDENCE_THRESHOLD
            /\ \A j \in 1..Len(query.reranked_results) :
                   (\A i \in 1..Len(src) : src[i].chunk_id # query.reranked_results[j].chunk_id)
                     => \A i \in 1..Len(src) :
                            query.reranked_results[j].rerank_score <= src[i].score

\* C18 witness: candidates score above, at and below the threshold, more of
\* them above it than top_k, and top_k sources were returned.
C18_Witness ==
    /\ query.outcome = "returned"
    /\ query.stage = "generate"
    /\ \E i \in 1..Len(query.reranked_results) :
           query.reranked_results[i].rerank_score = CONFIDENCE_THRESHOLD
    /\ \E i \in 1..Len(query.reranked_results) :
           query.reranked_results[i].rerank_score < CONFIDENCE_THRESHOLD
    /\ Len(AboveThreshold(query)) > query.top_k
    /\ Len(query.sources) = query.top_k

\* The store events of a task: position a writes the Document row of id.
WroteDocument(j, a, id) == log[j][a] = <<"write", "document", ToString(id)>>
\* The shard write of the document written at position a failed: the store
\* stage raised right after the Document row, with no database fault.
ShardWriteFailed(j, a) ==
    /\ a < Len(log[j])
    /\ log[j][a][1] = "write" /\ log[j][a][2] = "document"
    /\ log[j][a + 1][1] = "store" /\ log[j][a + 1][3] = "raised"
Position(j, e) == CHOOSE a \in 1..Len(log[j]) : log[j][a] = e

\* C19: every shard belongs to a committed Document row (status completed)
\* and every Chunk row to a document that has its shard; a task writes the
\* Document row before the shard and the shard before the Chunk rows; and
\* after a failed shard write the Document row is still committed, with no
\* shard and no Chunk row.
C19_DocumentCommittedBeforeShard ==
    /\ \A f \in shards : \E d \in documents :
           d.document_id = f.document_id /\ d.status = "completed"
    /\ \A c \in chunk_rows : c.document_id \in ShardDocs
    /\ \A j \in JobIds : \A e \in Events(j) :
         /\ (e[1] = "write" /\ e[2] = "shard") =>
               /\ <<"write", "document", e[3]>> \in Events(j)
               /\ Position(j, <<"write", "document", e[3]>>) < Position(j, e)
         /\ (e[1] = "write" /\ e[2] = "chunks") =>
               /\ <<"write", "shard", e[3]>> \in Events(j)
               /\ Position(j, <<"write", "shard", e[3]>>) < Position(j, e)
    /\ \A j \in JobIds : \A a \in 1..Len(log[j]) :
         ShardWriteFailed(j, a) =>
             \E d \in documents :
                 /\ WroteDocument(j, a, d.document_id)
                 /\ d.status = "completed"
                 /\ d.document_id \notin ShardDocs
                 /\ \A c \in chunk_rows : c.document_id # d.document_id

\* C19 witness: a task has ended whose only stored file failed at the shard
\* write: a Document row is committed and there is no shard.
C19_Witness ==
    \E j \in JobIds :
        /\ pc[j] = "finally"
        /\ \E a \in 1..Len(log[j]) : ShardWriteFailed(j, a)
        /\ documents # {}
        /\ shards = {}
        /\ chunk_rows = {}

\* A commit inside store_document raised.
StoreFault(e) == e[1] = "fault" /\ e[2] = "commit" /\ e[3] \in {"document", "chunks"}
StoreFaults(j) == SelectSeq(log[j], StoreFault)
DATABASE_FAILURE ==
    "500: Error storing document in database: database unavailable"

\* The step in which a commit of store_document raises for the task of j.
C20_Step(j) ==
    Len(StoreFaults(j)') = Len(StoreFaults(j)) + 1 =>
        /\ documents' = documents
        /\ chunk_rows' = chunk_rows
        /\ failed_files'[j] = Append(failed_files[j], file_path(j) \o " - " \o DATABASE_FAILURE)
        /\ results'[j] = results[j]
        /\ exc'[j] = NoException
        /\ jobs'[j] = jobs[j]
        /\ IF idx[j] < Len(files[j])
           THEN pc'[j] = "extract" /\ idx'[j] = idx[j] + 1
           ELSE pc'[j] = "set_completed"

\* The end of a task in which commits of store_document raised and no other
\* database call did.
C20_End(j) ==
    (pc[j] = "finally" /\ StoreFaults(j) # <<>> /\ Faults(j) = StoreFaults(j)) =>
        /\ jobs[j].status = "COMPLETED"
        /\ Len(failed_files[j]) >= Len(StoreFaults(j))
        /\ jobs[j].result = Summary(Len(results[j]), Len(failed_files[j]))

\* C20: when a commit inside store_document raises, nothing of the failed
\* transaction is committed, the file is recorded as failed with the
\* Database failure raised to the controller, the loop goes on to the next
\* file (or to the final update) without entering the job-level handler, and
\* the job ends COMPLETED.
C20_DatabaseFailureFailsOnlyTheFile ==
    /\ [](\A j \in JobIds : C20_End(j))
    /\ [][\A j \in JobIds : C20_Step(j)]_vars

\* C20 witness: the Chunk commit of the first of two files raised, the second
\* file was stored, and the job is COMPLETED with one processed, one failed.
C20_Witness ==
    \E j \in JobIds :
        /\ pc[j] = "finally"
        /\ Len(files[j]) = 2
        /\ Faults(j) = << <<"fault", "commit", "chunks">> >>
        /\ <<"store", files[j][1], "raised">> \in Events(j)
        /\ <<"store", files[j][2], "returned">> \in Events(j)
        /\ jobs[j] = Row("COMPLETED", "Processed: 1, Failed: 1")

\* Readings of the store for one document id.
ShardRowCount(id) ==
    IF \E f \in shards : f.document_id = id
    THEN Len((CHOOSE f \in shards : f.document_id = id).rows)
    ELSE 0
ChunkRowCount(id) == Cardinality({c \in chunk_rows : c.document_id = id})
\* A store_document call of the task of j is between its writes.
InStoreDocument(j) == pc[j] \in {"store_shard", "store_chunks"}

\* C21: whenever no store_document call is under way, every Document row has
\* as many shard rows as Chunk rows; and when a call that committed its
\* Document row ends, by returning or by raising, both counts of that document
\* equal the number of chunks and of embeddings the call was given.
C21_RowCountsAgree ==
    /\ []((\A j \in JobIds : ~InStoreDocument(j)) =>
            \A d \in documents : ShardRowCount(d.document_id) = ChunkRowCount(d.document_id))
    /\ [][\A j \in JobIds :
            (InStoreDocument(j) /\ ~InStoreDocument(j)') =>
                /\ Len(chunks[j]) = Len(embeddings[j])
                /\ ShardRowCount(document_id[j])' = Len(chunks[j])
                /\ ChunkRowCount(document_id[j])' = Len(chunks[j])]_vars

\* Every file below a directory, at any depth.
RECURSIVE FilesBelow(_)
FilesBelow(d) == {FS[d].files[i] : i \in 1..Len(FS[d].files)}
                 \cup UNION {FilesBelow(FS[d].dirs[i]) : i \in 1..Len(FS[d].dirs)}
\* The paths at hand: everything in the file system, and one missing path.
Paths == DOMAIN FS \cup {"/nope"}
HasSupportedExtension(p) == lower(FS[p].ext) \in {".pdf", ".txt", ".docx"}

\* What the collector owes for the path p, said of its result r.
CollectorContract(p, r) ==
    /\ ~exists(p) => r.raised.type = "PathNotFoundError"
    /\ (isfile(p) /\ HasSupportedExtension(p)) => r = Return(<<p>>)
    /\ (isfile(p) /\ ~HasSupportedExtension(p)) => r.raised.type = "ValidationError"
    /\ isdir(p) =>
          /\ r.raised = NoException
          /\ {r.files[i] : i \in 1..Len(r.files)}
               = {f \in FilesBelow(p) : HasSupportedExtension(f)}
          /\ Cardinality({r.files[i] : i \in 1..Len(r.files)}) = Len(r.files)

\* C22: validate_and_collect_files fails with PathNotFoundError on a missing
\* path, returns an existing file alone iff its extension (in any case) is
\* .pdf, .txt or .docx and fails with ValidationError otherwise, and for a
\* directory never fails and returns exactly the supported files below it,
\* each once, possibly none; the task that called it holds that outcome.
C22_CollectorContract ==
    /\ \A p \in Paths : CollectorContract(p, validate_and_collect_files(p))
    /\ \A j \in JobIds :
         CollectorCalled(j) =>
             LET r == validate_and_collect_files(path[j]) IN
               /\ CollectorContract(path[j], r)
               /\ r.raised # NoException => (exc[j] = r.raised /\ files[j] = <<>>)
               /\ r.raised = NoException => files[j] = r.files

\* C22 witness: the collector was called on a directory and returned the
\* supported files of two levels, leaving out the unsupported one.
C22_Witness ==
    \E j \in JobIds :
        /\ pc[j] = "extract"
        /\ path[j] = "/docs"
        /\ files[j] = <<"/docs/a.txt", "/docs/sub/B.PDF">>
        /\ "/docs/notes.md" \in FilesBelow("/docs")

\* The task slot j holds the outcome of a call of extract_text on its own.
ExtractorCalled(j) == pc[j] = "done" /\ session[j].opened = 0 /\ path[j] \in FilePaths

\* C23: extract_text on a file whose extension is not .txt, .pdf or .docx
\* raises InvalidFileError, and it raises ProcessingError only for a file of
\* a supported extension.
C23_UnsupportedIsInvalidFile ==
    \A j \in JobIds :
        ExtractorCalled(j) =>
            /\ ~HasSupportedExtension(path[j]) => raised[j].type = "InvalidFileError"
            /\ raised[j].type = "ProcessingError" => HasSupportedExtension(path[j])

\* The store and the job table, as the ingestion side writes them.
IngestionData == <<jobs, documents, chunk_rows, shards, next_uuid>>
\* A step of a task or of POST /ingest: a program counter moves.
IngestionStep == pc' # pc
\* A step of POST /query: a query ends, or its response is sent.
QueryStep == query' # query

\* C24: no step of an ingestion job or of POST /ingest changes the embedding
\* cache or anything else of the retrieval side; no step of a query changes
\* the job table, the Document and Chunk tables, the shards or any task's
\* state, neither does the status endpoint; and what a query ends with is
\* what query_documents gives for the cache and the shard files on disk,
\* whatever the tables and the tasks hold.
C24_PipelinesShareOnlyTheShards ==
    [][/\ IngestionStep => UNCHANGED <<EMBEDDING_CACHE, query, first_load>>
       /\ QueryStep =>
            /\ UNCHANGED <<IngestionData, pc, locals, session, raised, log>>
            /\ query' # NoQuery =>
                 \E request \in Requests, lib \in EndpointLibs :
                    LET r == query_documents(request, EMBEDDING_CACHE, shards, lib)
                    IN  query' = r.locals /\ EMBEDDING_CACHE' = r.cache
       /\ \A j \in JobIds :
            task_status(j)' # task_status(j) => IngestionStep]_vars

\* C24 witness: a query has returned sources from the one shard on disk,
\* which a job of this process wrote.
C24_Witness ==
    /\ query.outcome = "returned"
    /\ query.sources # <<>>
    /\ \E j \in JobIds : pc[j] = "done" /\ jobs[j] = Row("COMPLETED", "Processed: 1, Failed: 0")
    /\ Cardinality(documents) = 1
    /\ SourceDocs(query) = ShardDocs

\* The last event of the task's history.
LastEvent(j) == log[j][Len(log[j])]
PreStorePcs == {"extract", "chunk", "embed"}

\* A step of extract_text, chunk_text or generate_embeddings for the current
\* file of the task of j.
C26_Step(j) ==
    (pc[j] \in PreStorePcs /\ pc'[j] # pc[j]) =>
        /\ UNCHANGED <<documents, chunk_rows, shards>>
        /\ LastEvent(j)'[2] = file_path(j)
        /\ LastEvent(j)'[3] \in {"raised", "empty", "nochunks"} =>
              /\ Len(failed_files'[j]) = Len(failed_files[j]) + 1
              /\ results'[j] = results[j]
              /\ pc'[j] \in {"extract", "set_completed"}
        /\ LastEvent(j)'[3] = "returned" =>
              /\ failed_files'[j] = failed_files[j]
              /\ results'[j] = results[j]

\* C26: a step of extraction, chunking or embedding leaves the Document
\* table, the Chunk table and the shards unchanged, and when it raises or
\* gives blank text or no chunk the file is counted as failed and the loop
\* moves on; a Document row is written only right after extract_text,
\* chunk_text and generate_embeddings have all returned for that file.
C26_DocumentOnlyAfterEmbedding ==
    /\ [](\A j \in JobIds : \A a \in 1..Len(log[j]) :
            (log[j][a][1] = "write" /\ log[j][a][2] = "document") =>
                /\ a > 3
                /\ log[j][a - 3][1] = "extract" /\ log[j][a - 3][3] = "returned"
                /\ log[j][a - 2] = <<"chunk", log[j][a - 3][2], "returned">>
                /\ log[j][a - 1] = <<"embed", log[j][a - 3][2], "returned">>)
    /\ [][\A j \in JobIds : C26_Step(j)]_vars

\* C26 witness: of two files one gave blank text and the other failed in
\* generate_embeddings; the job ended with both counted as failed and the
\* store empty.
C26_Witness ==
    \E j \in JobIds :
        /\ pc[j] = "finally"
        /\ Len(files[j]) = 2
        /\ <<"extract", files[j][1], "empty">> \in Events(j)
        /\ <<"embed", files[j][2], "raised">> \in Events(j)
        /\ jobs[j] = Row("COMPLETED", "Processed: 0, Failed: 2")
        /\ documents = {} /\ chunk_rows = {} /\ shards = {}

\* The commits of the job row in the history of the task of j.
JobWrites(j) == SelectSeq(log[j], LAMBDA e : e[1] = "write" /\ e[2] = "job")
\* The committed row the task of j leaves, told from its own history and
\* locals alone: the status of its last commit, with the summary of its own
\* counts, the no-files message or the text of the exception it caught.
OwnRow(j) ==
    LET w == JobWrites(j)
        status == IF w = <<>> THEN "PENDING" ELSE w[Len(w)][3]
    IN  IF status = "COMPLETED" THEN Row(status, Summary(Returned(j), NotStored(j)))
        ELSE IF status = "FAILED"
             THEN Row(status, IF exc[j] = NoException THEN "No supported files found"
                              ELSE str(exc[j]))
        ELSE Row(status, None)

\* A step of the task of j, or of the request that creates job j.
C27_Step(j) ==
    pc'[j] # pc[j] =>
        /\ \A k \in JobIds \ {j} :
              /\ jobs'[k] = jobs[k]
              /\ session'[k] = session[k]
              /\ pc'[k] = pc[k]
              /\ results'[k] = results[k]
              /\ failed_files'[k] = failed_files[k]
              /\ job'[k] = job[k]
        /\ documents \subseteq documents'
        /\ chunk_rows \subseteq chunk_rows'
        /\ shards \subseteq shards'

\* C27: with several jobs accepted in any order around each other's tasks,
\* a step of one job changes no other job's row, session, position or
\* counts and takes no committed Document, Chunk row or shard away, also
\* when it is a failing commit that is rolled back; every running task has
\* its own open session; and the row a task leaves is the one its own
\* history gives (the counts of its own files), whatever the other jobs did.
C27_JobsDoNotInterfere ==
    /\ [](\A j \in JobIds :
            /\ Running(j) => session[j] = [opened |-> 1, closed |-> 0]
            /\ (pc[j] = "finally" /\ jobs[j] # NoRow) => jobs[j] = OwnRow(j))
    /\ [][\A j \in JobIds : C27_Step(j)]_vars

\* C27 witness: the second job ends COMPLETED with its one file failed by a
\* rolled-back Chunk commit, after the first job ended COMPLETED with one
\* file stored, and the first job's row and Document are still there.
C27_Witness ==
    /\ pc[1] = "done"
    /\ jobs[1] = Row("COMPLETED", "Processed: 1, Failed: 0")
    /\ pc[2] = "finally"
    /\ <<"fault", "commit", "chunks">> \in Events(2)
    /\ jobs[2] = Row("COMPLETED", "Processed: 0, Failed: 1")
    /\ Cardinality(documents) = 2
    /\ Cardinality(shards) = 2
    /\ \E c \in chunk_rows : c.document_id = 1

\* The text t with the prefix p taken from its head only, and the blanks
\* around the rest dropped.
WithoutLeading(t, p) == strip_text(SubSeq(t, Len(p) + 1, Len(t)))
\* The denylisted phrases the text t starts with.
LeadingPhrases(t) ==
    {i \in 1..Len(unwanted_prefixes) : startswith(t, unwanted_prefixes[i])}

\* C28: the answer returned with sources is the generated text unchanged when
\* that text starts with no denylisted phrase, and otherwise the generated
\* text without a leading denylisted phrase, the text after it, later
\* occurrences of the phrase included, being kept.
C28_OnlyTheLeadingPhraseIsRemoved ==
    (query.outcome = "returned" /\ query.stage = "generate" /\ query.sources # <<>>) =>
        /\ LeadingPhrases(query.generated) = {} => query.answer = query.generated
        /\ LeadingPhrases(query.generated) # {} =>
              \E i \in LeadingPhrases(query.generated) :
                  query.answer = WithoutLeading(query.generated, unwanted_prefixes[i])

\* The task of an accepted job has started and has ended.
TaskEnded(j) == pc[j] = "done" /\ session[j].opened = 1 /\ jobs[j] # NoRow

\* C29: when the task of an accepted job has ended, after which nothing
\* writes the job's row again, the committed status is COMPLETED or FAILED:
\* no job is left PENDING or PROCESSING.
C29_EndedTaskIsTerminal ==
    \A j \in JobIds :
        TaskEnded(j) => jobs[j].status \in {"COMPLETED", "FAILED"}

\* The ids of the Documents, shards and Chunk rows the task of j has written.
Written(j, what) == {e[3] : e \in {x \in Events(j) : x[1] = "write" /\ x[2] = what}}
\* The shard files a first call of load_embeddings would read: every file
\* of data/parquet matches the glob.
RetrievableShards == {ToString(f.document_id) : f \in shards}

\* C30: when the loop of a task has ended, the files counted as Processed
\* are as many as the documents for which the task wrote the Document row,
\* the shard and the Chunk rows, and no other shard written by the task is
\* on disk for load_embeddings to read: a file counted as Failed has left
\* none.
C30_CountsAgreeWithStore ==
    \A j \in JobIds :
        pc[j] \in {"set_completed", "commit_completed"} =>
            /\ Cardinality(Written(j, "chunks")) = Len(results[j])
            /\ Written(j, "chunks") \subseteq Written(j, "shard")
            /\ Written(j, "shard") \subseteq Written(j, "document")
            /\ Written(j, "shard") \cap RetrievableShards \subseteq Written(j, "chunks")

\* A query is inside load_embeddings, between the test of the cold cache
\* and the end of its scan.
Loading == query.outcome = "loading"

\* C25 (as stated): the first load is not single-flight: while one query is
\* inside load_embeddings on a cold cache, a second query can pass the
\* `cache is None` test as well.
C25_SecondQueryCanEnterTheLoad ==
    Loading =>
        ENABLED (\E request \in Requests, lib \in EndpointLibs :
                    begin_query(request, lib) /\ query'.outcome = "loading")

\* C25 (amended): a query passes the cold-cache test only when no other
\* query or task is under way; while it is inside load_embeddings the cache
\* stays cold, no task and no other query takes a step, and the next step is
\* the end of that same query, which has scanned the shard files; a later
\* query scans them again only if the cache is still cold then.
C25_LoadsNeverOverlap ==
    /\ [](Loading => (EMBEDDING_CACHE = NoCache /\ \A k \in JobIds : ~Running(k)))
    /\ [][/\ (Loading' /\ ~Loading) => (query = NoQuery /\ EMBEDDING_CACHE = NoCache)
          /\ Loading =>
               /\ UNCHANGED <<pc, jobs, documents, chunk_rows, shards>>
               /\ query' # query =>
                     /\ query'.outcome \in {"returned", "raised"}
                     /\ query'.top_k = query.top_k
                     /\ query'.read
                     /\ Loaded(query')]_vars

\* C25 witness: a query is inside load_embeddings on a cold cache with a
\* shard on disk, after an earlier query's load had left the cache cold.
C25_Witness ==
    /\ Loading
    /\ first_load.called
    /\ shards # {}
    /\ EMBEDDING_CACHE = NoCache

====
